---- MODULE Spec2Model ----
(***************************************************************************)
(* Model of the SpecsLab Prodigy .xy parser (src/xpsparser/xpsparser.py,   *)
(* class XPSParser).  One behaviour is one call of XPSParser.parse on a    *)
(* fresh parser instance.  Text is modelled as sequences of one-character  *)
(* strings, so that strip/split/lower/substring tests are computed the way *)
(* Python computes them.  Python dicts are modelled as sequences of        *)
(* [k, v] records in insertion order.  Python list indices are 0-based:    *)
(* line_nr = n designates file_contents[n + 1] here.                       *)
(***************************************************************************)
EXTENDS Integers, Sequences, FiniteSets, TLC

(***************************************************************************)
(* Bounds of the model.                                                    *)
(***************************************************************************)
\* largest number of data blocks that follow the global header of a file
MaxBlocks == 3

(***************************************************************************)
(* Python str operations on sequences of characters.                       *)
(***************************************************************************)
Whitespace == {" ", "\n", "\t"}

UpperChars == <<"A","B","C","D","E","F","G","H","I","J","K","L","M","N","O","P","Q","R","S","T","U","V","W","X","Y","Z">>

LowerChars == <<"a","b","c","d","e","f","g","h","i","j","k","l","m","n","o","p","q","r","s","t","u","v","w","x","y","z">>

\* str.lower() on one character
LowerChar(c) ==
    IF \E i \in DOMAIN UpperChars : UpperChars[i] = c
    THEN LowerChars[CHOOSE i \in DOMAIN UpperChars : UpperChars[i] = c]
    ELSE c

\* str.lower()
Lower(s) == [i \in DOMAIN s |-> LowerChar(s[i])]

RECURSIVE LStrip(_, _)
LStrip(s, cs) ==
    IF s = <<>> THEN s
    ELSE IF Head(s) \in cs THEN LStrip(Tail(s), cs) ELSE s

RECURSIVE RStrip(_, _)
RStrip(s, cs) ==
    IF s = <<>> THEN s
    ELSE IF s[Len(s)] \in cs THEN RStrip(SubSeq(s, 1, Len(s) - 1), cs) ELSE s

\* str.strip(chars)
StripChars(s, cs) == RStrip(LStrip(s, cs), cs)

\* str.strip()
Strip(s) == StripChars(s, Whitespace)

\* position of the first occurrence of character c in s, 0 when absent
IndexOf(s, c) ==
    IF \E i \in DOMAIN s : s[i] = c
    THEN CHOOSE i \in DOMAIN s : s[i] = c /\ \A j \in 1..(i - 1) : s[j] # c
    ELSE 0

\* str.split(c): every occurrence of c separates two pieces
RECURSIVE Split(_, _)
Split(s, c) ==
    IF IndexOf(s, c) = 0 THEN <<s>>
    ELSE <<SubSeq(s, 1, IndexOf(s, c) - 1)>>
         \o Split(SubSeq(s, IndexOf(s, c) + 1, Len(s)), c)

\* str.split(c, 1): only the first occurrence of c separates
Split1(s, c) ==
    IF IndexOf(s, c) = 0 THEN <<s>>
    ELSE <<SubSeq(s, 1, IndexOf(s, c) - 1), SubSeq(s, IndexOf(s, c) + 1, Len(s))>>

\* str.split(): pieces between runs of whitespace, no empty piece
RECURSIVE SplitWS(_)
SplitWS(s) ==
    LET t == LStrip(s, Whitespace)
        e == IF \E i \in DOMAIN t : t[i] \in Whitespace
             THEN CHOOSE i \in DOMAIN t :
                      t[i] \in Whitespace /\ \A j \in 1..(i - 1) : t[j] \notin Whitespace
             ELSE Len(t) + 1
    IN  IF t = <<>> THEN <<>>
        ELSE <<SubSeq(t, 1, e - 1)>> \o SplitWS(SubSeq(t, e, Len(t)))

\* the Python test  sub in s  on strings
Contains(sub, s) ==
    \E i \in 0..(Len(s) - Len(sub)) : SubSeq(s, i + 1, i + Len(sub)) = sub

\* str.replace(a, b) for single characters a and b
Replace(s, a, b) == [i \in DOMAIN s |-> IF s[i] = a THEN b ELSE s[i]]

\* str(n) for a small non-negative integer
Digits == <<"0","1","2","3","4","5","6","7","8","9">>

RECURSIVE Str(_)
Str(n) == IF n < 10 THEN <<Digits[n + 1]>> ELSE Str(n \div 10) \o <<Digits[(n % 10) + 1]>>

(***************************************************************************)
(* Python dict operations; a dict is a sequence of [k, v] in insertion     *)
(* order, every key occurring once.                                        *)
(***************************************************************************)
DictHas(d, key) == \E i \in DOMAIN d : d[i].k = key

DictGet(d, key) == d[CHOOSE i \in DOMAIN d : d[i].k = key].v

\* d[key] = val
DictSet(d, key, val) ==
    IF DictHas(d, key)
    THEN [i \in DOMAIN d |-> IF d[i].k = key THEN [k |-> key, v |-> val] ELSE d[i]]
    ELSE Append(d, [k |-> key, v |-> val])

\* the subsequence of the elements of s whose index is in the set keep
RECURSIVE Keep(_, _)
Keep(s, keep) ==
    IF s = <<>> THEN <<>>
    ELSE Keep(SubSeq(s, 1, Len(s) - 1), keep)
         \o (IF Len(s) \in keep THEN <<s[Len(s)]>> ELSE <<>>)

(***************************************************************************)
(* Module-level tables of xpsparser.py.                                    *)
(***************************************************************************)
EXTERNAL_CHANNEL_INDICATORS == << <<"e","x","t","e","r","n","a","l"," ","c","h","a","n","n","e","l">>, <<"E","x","t","e","r","n","a","l"," ","C","h","a","n","n","e","l">> >>

\* header key -> attribute of MetaData
GROUP_METADATA_ATTRIBUTE_MAP ==
    << [k |-> <<"A","c","q","u","i","s","i","t","i","o","n"," ","D","a","t","e">>, v |-> "timestamp"],
       [k |-> <<"D","w","e","l","l"," ","T","i","m","e">>, v |-> "dwell_time"],
       [k |-> <<"G","r","o","u","p">>, v |-> "group_name"],
       [k |-> <<"N","u","m","b","e","r"," ","o","f"," ","S","c","a","n","s">>, v |-> "n_scans"],
       [k |-> <<"R","e","g","i","o","n">>, v |-> "spectrum_region"],
       [k |-> <<"E","x","c","i","t","a","t","i","o","n"," ","E","n","e","r","g","y">>, v |-> "excitation_energy"],
       [k |-> <<"V","a","l","u","e","s","/","C","u","r","v","e">>, v |-> "n_values"],
       [k |-> <<"S","o","u","r","c","e">>, v |-> "source_label"] >>

\* header key -> attribute of DeviceSettings
SETTINGS_ATTRIBUTE_MAP ==
    << [k |-> <<"A","n","a","l","y","s","i","s"," ","M","e","t","h","o","d">>, v |-> "analysis_method"],
       [k |-> <<"A","n","a","l","y","z","e","r"," ","L","e","n","s">>, v |-> "analyzer_lens"],
       [k |-> <<"A","n","a","l","y","z","e","r"," ","S","l","i","t">>, v |-> "analyzer_slit"],
       [k |-> <<"D","e","t","e","c","t","o","r"," ","V","o","l","t","a","g","e">>, v |-> "detector_voltage"],
       [k |-> <<"E","f","f","."," ","W","o","r","k","f","u","n","c","t","i","o","n">>, v |-> "workfunction"],
       [k |-> <<"S","c","a","n"," ","M","o","d","e">>, v |-> "scan_mode"] >>

DEFAULT_ENERGY_UNIT == <<"e","V">>

KNOWN_CHANNEL_LABELS ==
    << [k |-> <<"R","i","n","g"," ","C","u","r","r","e","n","t">>, v |-> <<"r","i","n","g"," ","c","u","r","r","e","n","t">>],
       [k |-> <<"I","_","m","i","r","r","o","r">>, v |-> <<"m","i","r","r","o","r"," ","c","u","r","r","e","n","t">>],
       [k |-> <<"E","x","c","i","t","a","t","i","o","n"," ","E","n","e","r","g","y">>, v |-> <<"e","x","c","i","t","a","t","i","o","n"," ","e","n","e","r","g","y">>],
       [k |-> <<"T","E","Y">>, v |-> <<"t","o","t","a","l"," ","e","l","e","c","t","r","o","n"," ","y","i","e","l","d">>] >>

KNOWN_CHANNEL_UNITS ==
    << [k |-> <<"[","m","A","]">>, v |-> <<"m","A">>],
       [k |-> <<"[","V","]">>, v |-> <<"V">>],
       [k |-> <<"[","e","V","]">>, v |-> <<"e","V">>] >>

KNOWN_DEVICE_NAMES ==
    << [k |-> <<"A","M","C"," ","M","o","n","o"," ","(","T","C","P",")">>, v |-> <<"m","o","n","o","c","h","r","o","m","a","t","o","r">>],
       [k |-> <<"U","E","5","6","/","2","-","P","G","M","1"," ","(","T","C","P",")">>, v |-> <<"b","e","a","m","l","i","n","e">>],
       [k |-> <<"A","R","M","I","N","-","A","D","C","3">>, v |-> <<"a","r","m","i","n">>],
       [k |-> <<"A","r","m","i","n","1","0">>, v |-> <<"a","r","m","i","n">>] >>

DEFAULT_PRIMARY_DEVICE_NAME == <<"P","h","o","i","b","o","s"," ","H","e","m","i","s","p","h","e","r","i","c","a","l"," ","A","n","a","l","y","z","e","r">>

DEFAULT_AXIS_DEVICE_NAME == <<"H","S","A"," ","3","5","0","0"," ","p","l","u","s">>

DEFAULT_METHOD_TYPE == <<"X","P","S">>

(***************************************************************************)
(* Values that stand for Python's None, for an attribute that an object    *)
(* does not have, and for a local variable that was never bound.           *)
(***************************************************************************)
None == << "<None>" >>

NoAttr == << "<no attribute>" >>

Unbound == << "<unbound>" >>

(***************************************************************************)
(* round(float(token), 3), as an integer number of thousandths.  The       *)
(* literals covered are [+-]digits[.digits]; the fourth decimal decides    *)
(* the rounding.                                                           *)
(***************************************************************************)
IsDigit(c) == \E i \in DOMAIN Digits : Digits[i] = c

DigitVal(c) == (CHOOSE i \in DOMAIN Digits : Digits[i] = c) - 1

RECURSIVE Num(_)
Num(ds) ==
    IF ds = <<>> THEN 0
    ELSE Num(SubSeq(ds, 1, Len(ds) - 1)) * 10 + DigitVal(ds[Len(ds)])

Unsigned(tok) == IF tok # <<>> /\ Head(tok) \in {"+", "-"} THEN Tail(tok) ELSE tok

IntPart(tok) == Split1(Unsigned(tok), ".")[1]

FracPart(tok) ==
    IF Len(Split1(Unsigned(tok), ".")) = 2 THEN Split1(Unsigned(tok), ".")[2] ELSE <<>>

\* float(token) does not raise ValueError
IsFloat(tok) ==
    /\ \A i \in DOMAIN IntPart(tok) : IsDigit(IntPart(tok)[i])
    /\ \A i \in DOMAIN FracPart(tok) : IsDigit(FracPart(tok)[i])
    /\ Len(IntPart(tok)) + Len(FracPart(tok)) > 0

Float3(tok) ==
    LET f == FracPart(tok) \o <<"0","0","0","0">>
        m == Num(IntPart(tok)) * 1000 + Num(SubSeq(f, 1, 3))
             + (IF DigitVal(f[4]) >= 5 THEN 1 ELSE 0)
    IN  IF tok # <<>> /\ Head(tok) = "-" THEN 0 - m ELSE m

(***************************************************************************)
(* The input files.  A file is a global header, at most MaxBlocks data     *)
(* blocks and an ending, each taken from a catalogue of line sequences.    *)
(***************************************************************************)
\* global header: Kinetic Energy axis, Counts
HeaderCounts ==
    << <<"#"," ","E","n","e","r","g","y"," ","A","x","i","s",":"," ","K","i","n","e","t","i","c"," ","E","n","e","r","g","y","\n">>, <<"#"," ","C","o","u","n","t"," ","R","a","t","e",":"," ","C","o","u","n","t","s","\n">>, <<"#","\n">>, <<"\n">> >>

\* global header: Binding Energy axis, Counts per Second
HeaderPerSecond ==
    << <<"#"," ","E","n","e","r","g","y"," ","A","x","i","s",":"," ","B","i","n","d","i","n","g"," ","E","n","e","r","g","y","\n">>, <<"#"," ","C","o","u","n","t"," ","R","a","t","e",":"," ","C","o","u","n","t","s"," ","p","e","r"," ","S","e","c","o","n","d","\n">>,
       <<"#","\n">>, <<"\n">> >>

\* global header without an Energy Axis line
HeaderNoAxis == << <<"#"," ","C","o","u","n","t"," ","R","a","t","e",":"," ","C","o","u","n","t","s","\n">>, <<"#","\n">>, <<"\n">> >>

\* global header followed by one blank line only
HeaderTruncated ==
    << <<"#"," ","E","n","e","r","g","y"," ","A","x","i","s",":"," ","K","i","n","e","t","i","c"," ","E","n","e","r","g","y","\n">>, <<"#"," ","C","o","u","n","t"," ","R","a","t","e",":"," ","C","o","u","n","t","s","\n">>, <<"#","\n">> >>

\* ending: the last data row is the last line of the file
EndsWithRow == << >>

\* ending: a blank line after the last data row
EndsWithBlank == << <<"\n">> >>

\* ending: two comment lines after the last data row
EndsWithComments == << <<"#"," ","e","n","d","\n">>, <<"#"," ","e","n","d","\n">> >>

\* the pairs of global header and ending of the files
Layouts ==
    { <<HeaderCounts, EndsWithRow>>, <<HeaderCounts, EndsWithBlank>>,
      <<HeaderCounts, EndsWithComments>>,
      <<HeaderPerSecond, EndsWithBlank>>, <<HeaderNoAxis, EndsWithBlank>>,
      <<HeaderTruncated, EndsWithRow>>, <<HeaderTruncated, EndsWithBlank>> }

\* primary block with Region and Group, the group name carrying a tag
BlockTagged ==
    << <<"#"," ","R","e","g","i","o","n",":"," ","F","e","2","p","\n">>, <<"#"," ","G","r","o","u","p",":"," ","R","u","n","#","T",":"," ","5","\n">>, <<"1",".","0"," ","1","0",".","0","\n">>, <<"2",".","0"," ","2","0",".","0","\n">> >>

\* primary block of an alignment spectrum
BlockAlign ==
    << <<"#"," ","R","e","g","i","o","n",":"," ","P","r","e"," ","A","L","I","G","N","\n">>, <<"#"," ","G","r","o","u","p",":"," ","C","a","l","\n">>, <<"1",".","0"," ","1","1",".","0","\n">>, <<"2",".","0"," ","2","1",".","0","\n">> >>

\* primary block of a loop: neither Region nor Group
BlockLoop == << <<"#"," ","C","y","c","l","e",":"," ","1","\n">>, <<"1",".","0"," ","1","2",".","0","\n">>, <<"2",".","0"," ","2","2",".","0","\n">> >>

\* primary block whose group name has a tag without a colon
BlockBadTag ==
    << <<"#"," ","R","e","g","i","o","n",":"," ","O","1","s","\n">>, <<"#"," ","G","r","o","u","p",":"," ","R","u","n","#","T","\n">>, <<"1",".","0"," ","1","3",".","0","\n">>, <<"2",".","0"," ","2","3",".","0","\n">> >>

\* external channel block
BlockRing ==
    << <<"#"," ","E","x","t","e","r","n","a","l"," ","C","h","a","n","n","e","l",":"," ","R","i","n","g"," ","C","u","r","r","e","n","t"," ","[","m","A","]","\n">>, <<"1",".","0"," ","0",".","3","\n">>, <<"2",".","0"," ","0",".","4","\n">> >>

\* external channel block, the key written in another case
BlockOtherCase == << <<"#"," ","E","X","T","E","R","N","A","L"," ","c","h","a","n","n","e","l",":"," ","T","E","Y","\n">>, <<"1",".","0"," ","0",".","7","\n">>, <<"2",".","0"," ","0",".","8","\n">> >>

BlockKinds == {BlockTagged, BlockAlign, BlockLoop, BlockBadTag, BlockRing, BlockOtherCase}

RECURSIVE Flatten(_)
Flatten(ss) == IF ss = <<>> THEN <<>> ELSE Head(ss) \o Flatten(Tail(ss))

BlockSeqs == UNION {[1..n -> BlockKinds] : n \in 0..MaxBlocks}

(***************************************************************************)
(* Files written for one stage each: one group whose header lines are      *)
(* taken from small sets of values.                                        *)
(***************************************************************************)
\* the largest number of '#' segments in a group name
MaxSegments == 2

\* the text before the first '#' of a group name
TagBases == { <<>>, <<"R","u","n">>, <<"R","u","n"," ">> }

\* the '#' segments of a group name
TagSegments == { <<"T",":"," ","5">>, <<"T",":"," ","5",",">>, <<"P",":"," ","1",":"," ","2">>, <<"Q",":"," ">>, <<"K">>, <<"U",":"," ","v"," ","w"," ">> }

TagSeqs == UNION {[1..n -> TagSegments] : n \in 0..MaxSegments}

\* base#segment#segment...
JoinTags(base, segs) == base \o Flatten([i \in DOMAIN segs |-> <<"#">> \o segs[i]])

GroupNames == {JoinTags(b, ss) : b \in TagBases, ss \in TagSeqs}

\* the two data rows of the written blocks
TwoRows == << <<"1",".","0"," ","1","4",".","0","\n">>, <<"2",".","0"," ","2","4",".","0","\n">> >>

\* primary block with a given group name
BlockNamed(name) ==
    << <<"#"," ","R","e","g","i","o","n",":"," ","C","1","s","\n">>, <<"#"," ","G","r","o","u","p",":"," ">> \o name \o <<"\n">> >> \o TwoRows

\* the label part and the unit part of an external channel value
ExternalLabels ==
    { <<>>, <<"R","i","n","g"," ","C","u","r","r","e","n","t">>, <<"T","E","Y">>, <<"T","E","Y"," ","R","i","n","g"," ","C","u","r","r","e","n","t">>, <<"P","r","e","s","s","u","r","e">>,
      <<"A","r","m","i","n","1","0"," ","I","_","m","i","r","r","o","r">>, <<"A","M","C"," ","M","o","n","o"," ","(","T","C","P",")">> }

ExternalUnits == { <<>>, <<" ","[","m","A","]">>, <<" ","[","V","]"," ","[","m","A","]">> }

ExternalValues == {l \o u : l \in ExternalLabels, u \in ExternalUnits}

\* external block with a given 'External Channel' value
BlockExternal(value) ==
    << <<"#"," ","E","x","t","e","r","n","a","l"," ","C","h","a","n","n","e","l",":"," ">> \o value \o <<"\n">> >> \o TwoRows

\* global header: a Count Rate value that is neither of the two known ones
HeaderOtherRate ==
    << <<"#"," ","E","n","e","r","g","y"," ","A","x","i","s",":"," ","K","i","n","e","t","i","c"," ","E","n","e","r","g","y","\n">>, <<"#"," ","C","o","u","n","t"," ","R","a","t","e",":"," ","c","o","u","n","t","s","\n">>, <<"#","\n">>, <<"\n">> >>

\* global header without a Count Rate line
HeaderNoRate == << <<"#"," ","E","n","e","r","g","y"," ","A","x","i","s",":"," ","K","i","n","e","t","i","c"," ","E","n","e","r","g","y","\n">>, <<"#","\n">>, <<"\n">> >>

\* primary block with an analysis method and a scan mode
BlockMethod ==
    << <<"#"," ","R","e","g","i","o","n",":"," ","N","1","s","\n">>, <<"#"," ","G","r","o","u","p",":"," ","S","u","r","v","e","y","\n">>, <<"#"," ","A","n","a","l","y","s","i","s"," ","M","e","t","h","o","d",":"," ","U","P","S","\n">>,
       <<"#"," ","S","c","a","n"," ","M","o","d","e",":"," ","F","i","x","e","d","A","n","a","l","y","z","e","r","T","r","a","n","s","m","i","s","s","i","o","n","\n">> >> \o TwoRows

\* primary block of a constant-final-state scan
BlockScanMode ==
    << <<"#"," ","R","e","g","i","o","n",":"," ","N","K","\n">>, <<"#"," ","G","r","o","u","p",":"," ","E","d","g","e","\n">>, <<"#"," ","A","n","a","l","y","s","i","s"," ","M","e","t","h","o","d",":"," ","U","P","S","\n">>,
       <<"#"," ","S","c","a","n"," ","M","o","d","e",":"," ","C","o","n","s","t","a","n","t","F","i","n","a","l","S","t","a","t","e","\n">> >> \o TwoRows

\* primary block whose column labels name the excitation energy
BlockColumns ==
    << <<"#"," ","R","e","g","i","o","n",":"," ","O","K","\n">>, <<"#"," ","G","r","o","u","p",":"," ","E","d","g","e","\n">>,
       <<"#"," ","C","o","l","u","m","n","L","a","b","e","l","s",":"," ","E","x","c","i","t","a","t","i","o","n"," ","E","n","e","r","g","y"," ","c","o","u","n","t","s","\n">> >> \o TwoRows

\* external block with an analysis method of its own
BlockRingMethod ==
    << <<"#"," ","E","x","t","e","r","n","a","l"," ","C","h","a","n","n","e","l",":"," ","R","i","n","g"," ","C","u","r","r","e","n","t"," ","[","m","A","]","\n">>, <<"#"," ","A","n","a","l","y","s","i","s"," ","M","e","t","h","o","d",":"," ","A","E","S","\n">> >>
    \o TwoRows

\* external block of a constant-final-state scan
BlockRingScanMode ==
    << <<"#"," ","E","x","t","e","r","n","a","l"," ","C","h","a","n","n","e","l",":"," ","T","E","Y","\n">>, <<"#"," ","S","c","a","n"," ","M","o","d","e",":"," ","C","o","n","s","t","a","n","t","F","i","n","a","l","S","t","a","t","e","\n">> >>
    \o TwoRows

MethodPrimaries == {BlockTagged, BlockMethod, BlockScanMode, BlockColumns}

MethodExternals == {BlockRing, BlockRingMethod, BlockRingScanMode}

MethodGroups ==
    {p \o Flatten(es) : p \in MethodPrimaries,
                        es \in UNION {[1..n -> MethodExternals] : n \in 0..2}}

\* primary block with a data row that has a token which is no number
BlockBadToken ==
    << <<"#"," ","R","e","g","i","o","n",":"," ","S","2","p","\n">>, <<"#"," ","G","r","o","u","p",":"," ","R","u","n","\n">>, <<"1",".","0"," ","1","0",".","0","\n">>, <<"2",".","0"," ","a","b","c","\n">>,
       <<"3",".","0"," ","3","0",".","0","\n">> >>

\* global header that has keys of GROUP_METADATA_ATTRIBUTE_MAP
HeaderScoped ==
    << <<"#"," ","E","n","e","r","g","y"," ","A","x","i","s",":"," ","K","i","n","e","t","i","c"," ","E","n","e","r","g","y","\n">>, <<"#"," ","C","o","u","n","t"," ","R","a","t","e",":"," ","C","o","u","n","t","s","\n">>,
       <<"#"," ","R","e","g","i","o","n",":"," ","S","u","r","v","e","y","\n">>, <<"#"," ","D","w","e","l","l"," ","T","i","m","e",":"," ","0",".","1","\n">>, <<"#","\n">>, <<"\n">> >>

\* primary block with a dwell time and a number of scans of its own
BlockDwell ==
    << <<"#"," ","R","e","g","i","o","n",":"," ","C","u","2","p","\n">>, <<"#"," ","G","r","o","u","p",":"," ","D","e","p","t","h","\n">>, <<"#"," ","D","w","e","l","l"," ","T","i","m","e",":"," ","0",".","5","\n">>,
       <<"#"," ","N","u","m","b","e","r"," ","o","f"," ","S","c","a","n","s",":"," ","3","\n">> >> \o TwoRows

ScopedBlocks == {BlockTagged, BlockDwell, BlockLoop}

ScopedFiles ==
    {h \o Flatten(bs) \o EndsWithBlank :
        h \in {HeaderScoped, HeaderCounts},
        bs \in UNION {[1..n -> ScopedBlocks] : n \in 1..2}}

\* global header whose key/value lines are separated by single blank lines
HeaderSpaced ==
    << <<"#"," ","E","n","e","r","g","y"," ","A","x","i","s",":"," ","K","i","n","e","t","i","c"," ","E","n","e","r","g","y","\n">>, <<"#","\n">>, <<"#"," ","C","o","u","n","t"," ","R","a","t","e",":"," ","C","o","u","n","t","s","\n">>,
       <<"#","\n">>, <<"#"," ","S","o","u","r","c","e",":"," ","A","l"," ","K","-","a","l","p","h","a","\n">>, <<"#","\n">>, <<"\n">> >>

SpacedFiles == {HeaderSpaced \o b \o EndsWithBlank : b \in {<<>>, BlockTagged}}

\* global header with a value that has colons of its own
HeaderDated ==
    << <<"#"," ","A","c","q","u","i","s","i","t","i","o","n"," ","D","a","t","e",":"," ","0","1","/","0","2","/","2","1"," ","1","2",":","3","0",":","4","5","\n">>, <<"#"," ","E","n","e","r","g","y"," ","A","x","i","s",":"," ","K","i","n","e","t","i","c"," ","E","n","e","r","g","y","\n">>,
       <<"#"," ","C","o","u","n","t"," ","R","a","t","e",":"," ","C","o","u","n","t","s","\n">>, <<"#","\n">>, <<"\n">> >>

DatedFiles == {HeaderDated \o b \o EndsWithBlank : b \in {<<>>, BlockTagged, BlockDwell}}

StageFiles ==
    {HeaderCounts \o BlockNamed(n) \o EndsWithBlank : n \in GroupNames}
    \cup {HeaderCounts \o BlockTagged \o BlockExternal(v) \o EndsWithBlank :
             v \in ExternalValues}
    \cup {h \o BlockTagged \o b \o EndsWithBlank :
             h \in {HeaderOtherRate, HeaderNoRate}, b \in {<<>>, BlockRing}}
    \cup {HeaderCounts \o g \o EndsWithBlank : g \in MethodGroups}
    \cup {HeaderCounts \o b \o BlockBadToken \o EndsWithBlank : b \in {<<>>, BlockTagged}}
    \cup ScopedFiles
    \cup SpacedFiles
    \cup DatedFiles

\* the files of whole block sequences
SequenceFiles == {l[1] \o Flatten(bs) \o l[2] : l \in Layouts, bs \in BlockSeqs}

\* the files a parse is given
Files == SequenceFiles \cup StageFiles

(***************************************************************************)
(* Header lines.                                                           *)
(***************************************************************************)
\* _parseGlobalHeader: the line without comment markers and blanks
GlobalHeaderText(line) == Strip(StripChars(line, {"#"}))

\* _parseGlobalHeader: temp_line.split(':'), first piece is the key, last the value
GlobalHeaderEntry(line) ==
    LET parts == Split(GlobalHeaderText(line), ":")
    IN  [k |-> Strip(parts[1]), v |-> Strip(parts[Len(parts)])]

\* _parseDataHeader: temp_line.strip('#').split(':', 1)
DataHeaderEntry(line) ==
    LET parts == Split1(StripChars(line, {"#"}), ":")
    IN  [k |-> Strip(parts[1]), v |-> Strip(parts[Len(parts)])]

\* _parseDataValues: one row of floats, or ValueError
RowTokens(line) == SplitWS(line)

RowIsNumeric(line) == \A i \in DOMAIN RowTokens(line) : IsFloat(Strip(RowTokens(line)[i]))

RowValues(line) == [i \in DOMAIN RowTokens(line) |-> Float3(Strip(RowTokens(line)[i]))]

(***************************************************************************)
(* Classification of a block.                                              *)
(***************************************************************************)
\* _checkExternalChannel with the keys compared as written, without lower()
CheckExternalChannelCaseSensitive(dictionary) ==
    \E n \in DOMAIN EXTERNAL_CHANNEL_INDICATORS :
        \E i \in DOMAIN dictionary :
            Contains(EXTERNAL_CHANNEL_INDICATORS[n], dictionary[i].k)

\* _checkExternalChannel
CheckExternalChannel(dictionary) ==
    \E n \in DOMAIN EXTERNAL_CHANNEL_INDICATORS :
        \E i \in DOMAIN dictionary :
            Contains(EXTERNAL_CHANNEL_INDICATORS[n], Lower(dictionary[i].k))

K_channel_type == <<"c","h","a","n","n","e","l","_","t","y","p","e">>

T_primary == <<"p","r","i","m","a","r","y">>

T_external == <<"e","x","t","e","r","n","a","l">>

T_axis == <<"a","x","i","s">>

ChannelType(channel) == DictGet(channel.header, K_channel_type)

(***************************************************************************)
(* Metadata of a group.                                                    *)
(***************************************************************************)
\* MetaData(): the attributes set by __init__; the others do not exist yet
NewMetaData ==
    [timestamp |-> <<>>, dwell_time |-> <<>>, n_scans |-> <<>>,
     excitation_energy |-> <<>>, method_type |-> <<>>,
     data_labels |-> <<>>, device_settings |-> <<>>,
     group_name |-> NoAttr, spectrum_region |-> NoAttr,
     n_values |-> NoAttr, source_label |-> NoAttr,
     experiment_parameters |-> NoAttr]

\* DeviceSettings()
NewDeviceSettings ==
    [device_name |-> <<>>, channel_id |-> <<>>,
     analysis_method |-> NoAttr, analyzer_lens |-> NoAttr, analyzer_slit |-> NoAttr,
     detector_voltage |-> NoAttr, workfunction |-> NoAttr, scan_mode |-> NoAttr]

\* for key in dictionary.keys(): if key in map: setattr(obj, map[key], dictionary[key])
RECURSIVE ApplyAttrs(_, _, _)
ApplyAttrs(obj, dictionary, map) ==
    IF dictionary = <<>> THEN obj
    ELSE LET kv == dictionary[Len(dictionary)]
             rest == ApplyAttrs(obj, SubSeq(dictionary, 1, Len(dictionary) - 1), map)
         IN  IF DictHas(map, kv.k)
             THEN [rest EXCEPT ![DictGet(map, kv.k)] = kv.v]
             ELSE rest

\* _checkIfNexafs
CheckIfNexafs(group) ==
    \E i \in DOMAIN group :
        \/ /\ DictHas(group[i].header, <<"S","c","a","n"," ","M","o","d","e">>)
           /\ DictGet(group[i].header, <<"S","c","a","n"," ","M","o","d","e">>) = <<"C","o","n","s","t","a","n","t","F","i","n","a","l","S","t","a","t","e">>
        \/ /\ DictHas(group[i].header, <<"C","o","l","u","m","n","L","a","b","e","l","s">>)
           /\ Contains(<<"E","x","c","i","t","a","t","i","o","n"," ","E","n","e","r","g","y">>, DictGet(group[i].header, <<"C","o","l","u","m","n","L","a","b","e","l","s">>))

\* _getMethodType: the loop assigns on every channel, the last one decides
GetMethodType(group) ==
    IF CheckIfNexafs(group) THEN <<"N","E","X","A","F","S">>
    ELSE IF group = <<>> THEN Unbound
    ELSE IF DictHas(group[Len(group)].header, <<"A","n","a","l","y","s","i","s"," ","M","e","t","h","o","d">>)
         THEN DictGet(group[Len(group)].header, <<"A","n","a","l","y","s","i","s"," ","M","e","t","h","o","d">>)
         ELSE DEFAULT_METHOD_TYPE

\* the carried-over region read from the group name by mistake
CarriedRegionFromGroup(st) == st.current_group

\* _getGroupMetaData: the value self.current_region read for a primary
\* header without Region
CarriedRegion(st) == st.current_region

\* _getGroupMetaData, the body of the loop for one channel.  st carries
\* metadata, self.current_region, self.current_group and the error raised
GroupMetaChannel(st, channel) ==
    IF st.error # "none" \/ ChannelType(channel) # T_primary THEN st
    ELSE LET dictionary == channel.header
             md1 == ApplyAttrs(st.metadata, dictionary, GROUP_METADATA_ATTRIBUTE_MAP)
             hasRegion == DictHas(dictionary, <<"R","e","g","i","o","n">>)
             hasGroup == DictHas(dictionary, <<"G","r","o","u","p">>)
             region == IF hasRegion THEN DictGet(dictionary, <<"R","e","g","i","o","n">>)
                       ELSE CarriedRegion(st)
             grp == IF hasGroup THEN DictGet(dictionary, <<"G","r","o","u","p">>)
                    ELSE st.current_group
         IN  IF region = Unbound \/ grp = Unbound
             THEN [st EXCEPT !.error = "AttributeError",
                             !.current_region = IF hasRegion THEN region ELSE @]
             ELSE [metadata |->
                       [md1 EXCEPT
                          !.spectrum_region = IF hasRegion THEN @ ELSE region,
                          !.group_name = IF hasGroup THEN @ ELSE grp],
                   current_region |-> region,
                   current_group |-> grp,
                   error |-> "none"]

RECURSIVE GroupMetaLoop(_, _)
GroupMetaLoop(st, group) ==
    IF group = <<>> THEN st
    ELSE GroupMetaLoop(GroupMetaChannel(st, Head(group)), Tail(group))

\* _getGroupMetaData with the global header applied before the primary
\* header of the group, so that the group-local values win
GetGroupMetaDataLocalWins(group, global_hdr, cur_region, cur_group) ==
    LET st == GroupMetaLoop([metadata |-> ApplyAttrs(NewMetaData, global_hdr,
                                                     GROUP_METADATA_ATTRIBUTE_MAP),
                             current_region |-> cur_region,
                             current_group |-> cur_group, error |-> "none"], group)
    IN  IF st.error # "none" THEN st
        ELSE [st EXCEPT !.metadata = [@ EXCEPT !.method_type = GetMethodType(group)]]

\* _getGroupMetaData(group, MetaData())
GetGroupMetaData(group, global_hdr, cur_region, cur_group) ==
    LET st == GroupMetaLoop([metadata |-> NewMetaData, current_region |-> cur_region,
                             current_group |-> cur_group, error |-> "none"], group)
        md2 == ApplyAttrs(st.metadata, global_hdr, GROUP_METADATA_ATTRIBUTE_MAP)
    IN  IF st.error # "none" THEN st
        ELSE [st EXCEPT !.metadata = [md2 EXCEPT !.method_type = GetMethodType(group)]]

(***************************************************************************)
(* Channels of a group.                                                    *)
(***************************************************************************)
RECURSIVE DeviceLoop(_, _, _)
DeviceLoop(value, names, acc) ==
    IF names = <<>> THEN acc
    ELSE DeviceLoop(value, Tail(names),
                    IF Contains(Head(names).k, value) THEN Head(names).v
                    ELSE <<"u","n","k","n","o","w","n"," ","d","e","v","i","c","e">>)

RECURSIVE DeviceKeysLoop(_, _)
DeviceKeysLoop(dictionary, acc) ==
    IF dictionary = <<>> THEN acc
    ELSE DeviceKeysLoop(Tail(dictionary),
                        IF Contains(<<"E","x","t","e","r","n","a","l"," ","C","h","a","n","n","e","l">>, Head(dictionary).k)
                        THEN DeviceLoop(Head(dictionary).v, KNOWN_DEVICE_NAMES, acc)
                        ELSE acc)

\* _getDeviceName; Unbound when device_name was never assigned
GetDeviceName(channel) ==
    IF ChannelType(channel) = T_primary THEN DEFAULT_PRIMARY_DEVICE_NAME
    ELSE IF ChannelType(channel) = T_axis THEN DEFAULT_AXIS_DEVICE_NAME
    ELSE DeviceKeysLoop(channel.header, Unbound)

\* _getDeviceSettings
GetDeviceSettings(channel, global_hdr) ==
    [ApplyAttrs(ApplyAttrs(NewDeviceSettings, channel.header, SETTINGS_ATTRIBUTE_MAP),
                global_hdr, SETTINGS_ATTRIBUTE_MAP)
     EXCEPT !.device_name = GetDeviceName(channel)]

\* _getPrimaryUnit with the Count Rate value compared without regard to case
GetPrimaryUnitAnyCase(global_hdr) ==
    IF DictHas(global_hdr, <<"C","o","u","n","t"," ","R","a","t","e">>) /\ Lower(DictGet(global_hdr, <<"C","o","u","n","t"," ","R","a","t","e">>)) = <<"c","o","u","n","t","s">>
    THEN [unit |-> <<"c","o","u","n","t","s">>, label |-> <<"t","o","t","a","l"," ","c","o","u","n","t","s">>]
    ELSE IF DictHas(global_hdr, <<"C","o","u","n","t"," ","R","a","t","e">>)
            /\ Lower(DictGet(global_hdr, <<"C","o","u","n","t"," ","R","a","t","e">>)) = <<"c","o","u","n","t","s"," ","p","e","r"," ","s","e","c","o","n","d">>
    THEN [unit |-> <<"c","o","u","n","t","s"," ","p","e","r"," ","s","e","c","o","n","d">>, label |-> <<"c","o","u","n","t"," ","r","a","t","e">>]
    ELSE [unit |-> <<>>, label |-> <<>>]

\* _getPrimaryUnit
GetPrimaryUnit(global_hdr) ==
    IF DictHas(global_hdr, <<"C","o","u","n","t"," ","R","a","t","e">>) /\ DictGet(global_hdr, <<"C","o","u","n","t"," ","R","a","t","e">>) = <<"C","o","u","n","t","s">>
    THEN [unit |-> <<"c","o","u","n","t","s">>, label |-> <<"t","o","t","a","l"," ","c","o","u","n","t","s">>]
    ELSE IF DictHas(global_hdr, <<"C","o","u","n","t"," ","R","a","t","e">>)
            /\ DictGet(global_hdr, <<"C","o","u","n","t"," ","R","a","t","e">>) = <<"C","o","u","n","t","s"," ","p","e","r"," ","S","e","c","o","n","d">>
    THEN [unit |-> <<"c","o","u","n","t","s"," ","p","e","r"," ","s","e","c","o","n","d">>, label |-> <<"c","o","u","n","t"," ","r","a","t","e">>]
    ELSE [unit |-> <<>>, label |-> <<>>]

RECURSIVE LabelLoop(_, _, _)
LabelLoop(value, labels, acc) ==
    IF labels = <<>> THEN acc
    ELSE IF Contains(Head(labels).k, value) THEN Head(labels).v
    ELSE LabelLoop(value, Tail(labels), <<"u","n","k","n","o","w","n"," ","d","a","t","a"," ","l","a","b","e","l">>)

RECURSIVE UnitLoop(_, _, _)
UnitLoop(value, units, acc) ==
    IF units = <<>> THEN acc
    ELSE UnitLoop(value, Tail(units),
                  IF Contains(Head(units).k, value) THEN Head(units).v ELSE acc)

RECURSIVE ExternalUnitLoop(_, _)
ExternalUnitLoop(dictionary, acc) ==
    IF dictionary = <<>> THEN acc
    ELSE ExternalUnitLoop(Tail(dictionary),
             IF Contains(<<"E","x","t","e","r","n","a","l"," ","C","h","a","n","n","e","l">>, Head(dictionary).k)
             THEN [unit |-> UnitLoop(Head(dictionary).v, KNOWN_CHANNEL_UNITS, acc.unit),
                   label |-> LabelLoop(Head(dictionary).v, KNOWN_CHANNEL_LABELS, acc.label)]
             ELSE acc)

\* _getExternalUnit
GetExternalUnit(channel) == ExternalUnitLoop(channel.header, [unit |-> <<>>, label |-> <<>>])

\* _getUnit
GetUnit(channel, global_hdr) ==
    IF ChannelType(channel) = T_primary THEN GetPrimaryUnit(global_hdr)
    ELSE IF ChannelType(channel) = T_external THEN GetExternalUnit(channel)
    ELSE [unit |-> Unbound, label |-> Unbound]

\* _getValues: v[1] of every row, IndexError for a row of one value
ValuesOk(channel) == \A i \in DOMAIN channel.rows : Len(channel.rows[i]) >= 2

GetValues(channel) == [i \in DOMAIN channel.rows |-> channel.rows[i][2]]

\* _getChannelData followed by the assignment of channel_id in _addDataChannels
GetChannelData(channel, global_hdr, id) ==
    LET ul == GetUnit(channel, global_hdr)
        ds == GetDeviceSettings(channel, global_hdr)
    IN  [label |-> ul.label, unit |-> ul.unit,
         values |-> IF ValuesOk(channel) THEN GetValues(channel) ELSE <<>>,
         device_settings |-> ds,
         channel_id |-> id,
         error |-> IF ul.unit = Unbound THEN "UnboundLocalError"
                   ELSE IF ~ValuesOk(channel) THEN "IndexError"
                   ELSE IF ds.device_name = Unbound THEN "UnboundLocalError"
                   ELSE "none"]

\* _getXChannel with the Energy Axis of the global header tested before
\* NEXAFS
GetXChannelHeaderFirst(group, global_hdr, id) ==
    [label |-> IF DictHas(global_hdr, <<"E","n","e","r","g","y"," ","A","x","i","s">>)
               THEN DictGet(global_hdr, <<"E","n","e","r","g","y"," ","A","x","i","s">>)
               ELSE IF CheckIfNexafs(group) THEN <<"e","x","c","i","t","a","t","i","o","n"," ","e","n","e","r","g","y">>
                    ELSE NoAttr,
     unit |-> DEFAULT_ENERGY_UNIT,
     values |-> [i \in DOMAIN group[1].rows |-> group[1].rows[i][1]],
     device_settings |->
         GetDeviceSettings([header |-> <<[k |-> K_channel_type, v |-> T_axis]>>, rows |-> <<>>],
                           global_hdr),
     channel_id |-> id,
     error |-> "none"]

\* _getXChannel: the synthetic axis channel of the group
GetXChannel(group, global_hdr, id) ==
    [label |-> IF CheckIfNexafs(group) THEN <<"e","x","c","i","t","a","t","i","o","n"," ","e","n","e","r","g","y">>
               ELSE IF DictHas(global_hdr, <<"E","n","e","r","g","y"," ","A","x","i","s">>)
                    THEN DictGet(global_hdr, <<"E","n","e","r","g","y"," ","A","x","i","s">>)
                    ELSE NoAttr,
     unit |-> DEFAULT_ENERGY_UNIT,
     values |-> [i \in DOMAIN group[1].rows |-> group[1].rows[i][1]],
     device_settings |->
         GetDeviceSettings([header |-> <<[k |-> K_channel_type, v |-> T_axis]>>, rows |-> <<>>],
                           global_hdr),
     channel_id |-> id,
     error |-> "none"]

\* _addDataChannels without the increment of channel_id in _getXChannel:
\* the first block gets the id of the axis channel
AddDataChannelsSharedId(group, global_hdr, id) ==
    <<GetXChannel(group, global_hdr, id)>>
    \o [i \in DOMAIN group |-> GetChannelData(group[i], global_hdr, id + i - 1)]

\* _addDataChannels: the axis channel, then one channel per block of the group
AddDataChannels(group, global_hdr, id) ==
    <<GetXChannel(group, global_hdr, id)>>
    \o [i \in DOMAIN group |-> GetChannelData(group[i], global_hdr, id + i)]

\* the first error raised while the channels of a group are built
FirstError(channels) ==
    IF \E i \in DOMAIN channels : channels[i].error # "none"
    THEN channels[CHOOSE i \in DOMAIN channels :
                      /\ channels[i].error # "none"
                      /\ \A j \in 1..(i - 1) : channels[j].error = "none"].error
    ELSE "none"

\* a DataChannel as a dictionary: objectToDict keeps every attribute that
\* exists, an attribute that was never set is not a key
DataChannelDict(c) ==
    [label |-> c.label, unit |-> c.unit, values |-> c.values,
     device_settings |-> c.device_settings, channel_id |-> c.channel_id]

(***************************************************************************)
(* Post-processing of the data set.                                        *)
(***************************************************************************)
\* objectToDict on one MeasurementData
MeasurementDict(m) ==
    [metadata |-> m.metadata, data |-> [j \in DOMAIN m.data |-> DataChannelDict(m.data[j])]]

\* _moveChannelMetaToGlobal raises KeyError: s['label'] of a channel without label
MoveFails(d) == \E j \in DOMAIN d.data : d.data[j].label = NoAttr

\* _moveChannelMetaToGlobal, the body of the loop for one spectrum
MoveChannelMeta(d) ==
    [metadata |->
        [d.metadata EXCEPT
           !.data_labels = [j \in DOMAIN d.data |->
                               [channel_id |-> d.data[j].channel_id,
                                label |-> d.data[j].label,
                                unit |-> d.data[j].unit]],
           !.device_settings = [j \in DOMAIN d.data |->
                                   [d.data[j].device_settings
                                    EXCEPT !.channel_id = d.data[j].channel_id]]],
     data |-> [j \in DOMAIN d.data |-> d.data[j].values]]

\* removeAlign with the test made on the text as written, without lower()
IsAlignCaseSensitive(d) == Contains(<<"a","l","i","g","n">>, d.metadata.spectrum_region)

\* removeAlign: the test of one spectrum
IsAlign(d) == Contains(<<"a","l","i","g","n">>, Lower(d.metadata.spectrum_region))

\* removeAlign dropping the last record of the list instead of record i
DeleteLast(s, i) == SubSeq(s, 1, Len(s) - 1)

DeleteAt(s, i) == SubSeq(s, 1, i - 1) \o SubSeq(s, i + 1, Len(s))

\* removeAlign: the enumeration of the data set is walked from its end and
\* del self.dataset[idx] is applied to the list
RECURSIVE RemoveAlignFrom(_, _, _)
RemoveAlignFrom(snapshot, ds, i) ==
    IF i = 0 THEN ds
    ELSE RemoveAlignFrom(snapshot,
                         IF IsAlign(snapshot[i]) THEN DeleteAt(ds, i) ELSE ds,
                         i - 1)

RemoveAlign(ds) == RemoveAlignFrom(ds, ds, Len(ds))

\* _extractTags: the loop over tags[1:]
RECURSIVE TagLoop(_, _)
TagLoop(tags, acc) ==
    IF tags = <<>> \/ acc.error # "none" THEN acc
    ELSE LET key_val == Split(Head(tags), ":")
             key == Strip(key_val[1])
             val == StripChars(Strip(key_val[2]), {","})
         IN  IF Len(key_val) < 2 THEN [acc EXCEPT !.error = "IndexError"]
             ELSE TagLoop(Tail(tags),
                          IF Len(val) # 0
                          THEN [params |-> DictSet(acc.params, key, val),
                                vals |-> acc.vals \o val \o <<","," ">>,
                                error |-> "none"]
                          ELSE acc)

\* _extractTags with the base name stripped of blanks
ExtractTagsStrippedBase(spectrum) ==
    LET tags == Split(spectrum.metadata.group_name, "#")
        res == TagLoop(Tail(tags), [params |-> <<>>, vals |-> <<>>, error |-> "none"])
    IN  [spectrum |->
            [spectrum EXCEPT
               !.metadata.experiment_parameters = res.params,
               !.metadata.group_name =
                   IF Len(tags) > 1 /\ res.error = "none"
                   THEN (IF Len(Strip(tags[1])) = 0 THEN res.vals ELSE Strip(tags[1]))
                   ELSE @],
         error |-> res.error]

\* _extractTags
ExtractTags(spectrum) ==
    LET tags == Split(spectrum.metadata.group_name, "#")
        res == TagLoop(Tail(tags), [params |-> <<>>, vals |-> <<>>, error |-> "none"])
    IN  [spectrum |->
            [spectrum EXCEPT
               !.metadata.experiment_parameters = res.params,
               !.metadata.group_name =
                   IF Len(tags) > 1 /\ res.error = "none"
                   THEN (IF Len(Strip(tags[1])) = 0 THEN res.vals ELSE tags[1])
                   ELSE @],
         error |-> res.error]

(***************************************************************************)
(* The archive writer, the body of  for item in self.dataset  in parse.    *)
(***************************************************************************)
\* dlabel['label'].lower().replace(' ', '_')
NormalizedLabel(label) == Replace(Lower(label), " ", "_")

COUNT_LABELS == { <<"c","o","u","n","t">>, <<"t","o","t","a","l","_","c","o","u","n","t","s">> }

ENERGY_LABELS == { <<"e","n","e","r","g","y">>, <<"k","i","n","e","t","i","c","_","e","n","e","r","g","y">> }

\* the test that creates a SpectrumChannel descriptor for a data label
IsAdditionalChannel(current_label) ==
    current_label \notin { <<"c","o","u","n","t">>, <<"t","o","t","a","l","_","c","o","u","n","t","s">>, <<"e","n","e","r","g","y">>, <<"k","i","n","e","t","i","c","_","e","n","e","r","g","y">> }

\* the channel data loop taking the count rate for the count as well
DataRoleWithCountRate(label) ==
    IF label \in COUNT_LABELS \cup { <<"c","o","u","n","t","_","r","a","t","e">> } THEN "count"
    ELSE IF label \in ENERGY_LABELS THEN "energy"
    ELSE "more"

\* the role the channel data loop gives to a label
DataRole(label) ==
    IF label \in COUNT_LABELS THEN "count"
    ELSE IF label \in ENERGY_LABELS THEN "energy"
    ELSE "more"

\* the value left in a single-valued quantity by the assignments made for
\* the indices in set idxs, in increasing order: the last one; the quantity
\* stays unset (None) when there is no such index
LastOf(values, idxs) ==
    IF idxs = {} THEN [set |-> FALSE, values |-> <<>>]
    ELSE [set |-> TRUE, values |-> values[CHOOSE i \in idxs : \A j \in idxs : j <= i]]

\* item['metadata']['data_labels'][i]['unit'] of the energy channel
EnergyUnit(labels, idxs) ==
    IF idxs = {} THEN <<>>
    ELSE labels[CHOOSE i \in idxs : \A j \in idxs : j <= i].unit

\* the Measurement built for one item of the data set
MeasurementOf(item) ==
    LET labels == item.metadata.data_labels
        channels == [i \in DOMAIN labels |-> NormalizedLabel(labels[i].label)]
    IN  [method_name |-> item.metadata.method_type,
         n_scans |-> item.metadata.n_scans,
         dwell_time |-> item.metadata.dwell_time,
         excitation_energy |-> item.metadata.excitation_energy,
         source_label |-> IF item.metadata.source_label = NoAttr THEN None
                          ELSE item.metadata.source_label,
         additional_channels |->
             Keep([i \in DOMAIN labels |->
                      [channel_id |-> Str(labels[i].channel_id),
                       label |-> labels[i].label,
                       unit |-> labels[i].unit]],
                  {i \in DOMAIN labels : IsAdditionalChannel(channels[i])}),
         count |-> LastOf(item.data, {i \in DOMAIN channels : DataRole(channels[i]) = "count"}),
         energy |-> LastOf(item.data, {i \in DOMAIN channels : DataRole(channels[i]) = "energy"}),
         energy_unit |->
             EnergyUnit(labels, {i \in DOMAIN channels : DataRole(channels[i]) = "energy"}),
         additional_channel_data |->
             Keep(item.data, {i \in DOMAIN channels : DataRole(channels[i]) = "more"}),
         spectrum_region |-> item.metadata.spectrum_region]

(***************************************************************************)
(* The state of one XPSParser instance and of the archive it writes to.    *)
(***************************************************************************)
VARIABLES
    file_contents,     \* self.file_contents, the lines of the file
    prefix,            \* self.prefix, the comment marker, Unbound until parse sets it
    line_nr,           \* self.line_nr, 0-based line cursor
    empty_lines,       \* local counter of _parseGlobalHeader
    global_header,     \* self.global_header
    data,              \* self.data, the blocks [header, rows]
    data_header,       \* local dict of _parseDataHeader
    data_list,         \* local list of _parseDataValues
    spectra_groups,    \* self.spectra_groups
    idx,               \* position of the running for loop, 0-based
    current_region,    \* self.current_region, Unbound until first assigned
    current_group,     \* self.current_group, Unbound until first assigned
    channel_id,        \* self.channel_id
    measurement_data,  \* data_set of _putGroupsIntoClasses / self.measurement_data
    dataset,           \* self.dataset
    archive,           \* archive.measurement, the records appended so far
    pc,                \* the statement of parse that runs next
    error,             \* the exception that ended parse, "none" otherwise
    raised_in          \* the statement of parse that raised it

vars == <<file_contents, prefix, line_nr, empty_lines, global_header, data, data_header,
          data_list, spectra_groups, idx, current_region, current_group, channel_id,
          measurement_data, dataset, archive, pc, error, raised_in>>

\* the variables of the block parser
parser_vars == <<file_contents, prefix, line_nr, empty_lines, global_header, data,
                 data_header, data_list>>

\* the variables of the later stages
stage_vars == <<spectra_groups, current_region, current_group, channel_id,
                measurement_data, dataset, archive>>

\* the statements of parse with the archive written before the tags are extracted
StageOrderEmitFirst ==
    <<"group", "classes", "todict", "move", "align", "emit", "tags", "done">>

\* the statements of parse after the block loop, in program order
StageOrder == <<"group", "classes", "todict", "move", "align", "tags", "emit", "done">>

NextStage(s) == StageOrder[(CHOOSE i \in DOMAIN StageOrder : StageOrder[i] = s) + 1]

\* an exception leaves parse
Raise(e) ==
    /\ pc' = "failed"
    /\ error' = e
    /\ raised_in' = pc

NoRaise == UNCHANGED <<error, raised_in>>

\* the state after XPSParser()
Init ==
    /\ file_contents = <<>>
    /\ prefix = Unbound
    /\ line_nr = 0
    /\ empty_lines = 0
    /\ global_header = <<>>
    /\ data = <<>>
    /\ data_header = <<>>
    /\ data_list = <<>>
    /\ spectra_groups = <<>>
    /\ idx = 0
    /\ current_region = Unbound
    /\ current_group = Unbound
    /\ channel_id = 0
    /\ measurement_data = <<>>
    /\ dataset = <<>>
    /\ archive = <<>>
    /\ pc = "idle"
    /\ error = "none"
    /\ raised_in = "none"

\* parse, lines 547-553: the resets and _loadFile for one of the files;
\* the other attributes of the instance keep their values
LoadFile(files) ==
    /\ \E f \in files : file_contents' = f
    /\ prefix' = "#"
    /\ line_nr' = 0
    /\ empty_lines' = 0
    /\ global_header' = <<>>
    /\ data' = <<>>
    /\ pc' = "globalHeader"
    /\ UNCHANGED <<data_header, data_list, idx>>
    /\ UNCHANGED <<spectra_groups, current_region, current_group, channel_id,
                   measurement_data, dataset>>

\* parse called on a new instance
Parse ==
    /\ pc = "idle"
    /\ LoadFile(Files)
    /\ NoRaise
    /\ UNCHANGED archive

\* _parseGlobalHeader, one iteration of  while empty_lines < 2
ParseGlobalHeader ==
    /\ pc = "globalHeader"
    /\ IF line_nr >= Len(file_contents)
       THEN /\ Raise("IndexError")
            /\ UNCHANGED <<line_nr, empty_lines, global_header>>
       ELSE LET temp_line == GlobalHeaderText(file_contents[line_nr + 1])
                blank == Len(temp_line) = 0
                entry == GlobalHeaderEntry(file_contents[line_nr + 1])
            IN  /\ line_nr' = line_nr + 1
                /\ empty_lines' = IF blank THEN empty_lines + 1 ELSE empty_lines
                /\ global_header' = IF blank THEN global_header
                                    ELSE DictSet(global_header, entry.k, entry.v)
                /\ pc' = IF empty_lines' < 2 THEN "globalHeader" ELSE "blocks"
                /\ NoRaise
    /\ UNCHANGED <<file_contents, prefix, data, data_header, data_list, idx>>
    /\ UNCHANGED stage_vars

\* parse, line 559: the test of the block loop
ParseBlocks ==
    /\ pc = "blocks"
    /\ IF Len(file_contents) > line_nr + 1
       THEN /\ pc' = "dataHeader"
            /\ data_header' = <<>>
       ELSE /\ pc' = "group"
            /\ UNCHANGED data_header
    /\ idx' = 0
    /\ NoRaise
    /\ UNCHANGED <<file_contents, prefix, line_nr, empty_lines, global_header, data, data_list>>
    /\ UNCHANGED stage_vars

\* _parseDataHeader, one test of  while file_contents[self.line_nr][0] == self.prefix
ParseDataHeader ==
    /\ pc = "dataHeader"
    /\ IF line_nr >= Len(file_contents)
       THEN /\ Raise("IndexError")
            /\ UNCHANGED <<line_nr, data_header, data_list>>
       ELSE IF file_contents[line_nr + 1][1] = prefix
       THEN LET entry == DataHeaderEntry(file_contents[line_nr + 1])
            IN  /\ line_nr' = line_nr + 1
                /\ data_header' = DictSet(data_header, entry.k, entry.v)
                /\ pc' = "dataHeader"
                /\ NoRaise
                /\ UNCHANGED data_list
       ELSE /\ pc' = "dataValues"
            /\ data_list' = <<>>
            /\ NoRaise
            /\ UNCHANGED <<line_nr, data_header>>
    /\ UNCHANGED <<file_contents, prefix, empty_lines, global_header, data, idx>>
    /\ UNCHANGED stage_vars

\* the condition of the while loop of _parseDataValues
MoreDataValues(lines, nr) == Len(lines) > nr + 1 /\ lines[nr + 1][1] # prefix

\* _parseDataValues, one test of its while loop; on exit the block is
\* added to self.data
ParseDataValues ==
    /\ pc = "dataValues"
    /\ IF MoreDataValues(file_contents, line_nr)
       THEN LET line == file_contents[line_nr + 1]
            IN  IF ~RowIsNumeric(line)
                THEN /\ Raise("ValueError")
                     /\ line_nr' = line_nr + 1
                     /\ UNCHANGED <<data_list, data>>
                ELSE /\ line_nr' = line_nr + 1
                     /\ data_list' = IF Len(RowTokens(line)) = 0 THEN data_list
                                     ELSE Append(data_list, RowValues(line))
                     /\ pc' = "dataValues"
                     /\ NoRaise
                     /\ UNCHANGED data
       ELSE /\ data' = Append(data, [header |-> data_header, rows |-> data_list])
            /\ pc' = "blocks"
            /\ NoRaise
            /\ UNCHANGED <<line_nr, data_list>>
    /\ UNCHANGED <<file_contents, prefix, empty_lines, global_header, data_header, idx>>
    /\ UNCHANGED stage_vars

\* _groupSpectra: data[0]['channel_type'] = ...
Tagged(block, type) == [block EXCEPT !.header = DictSet(@, K_channel_type, type)]

\* _groupSpectra: self.spectra_groups += [[data]]
StartGroup(groups, block) == Append(groups, <<block>>)

\* _groupSpectra joining the block to the first group instead of the last
JoinFirstGroup(groups, block) == [groups EXCEPT ![1] = Append(@, block)]

\* _groupSpectra: self.spectra_groups[-1] += [data]
JoinGroup(groups, block) == [groups EXCEPT ![Len(groups)] = Append(@, block)]

\* _groupSpectra, one iteration of  for data in data_list; the header dict
\* that gets the channel_type is the one self.data holds
GroupSpectra ==
    /\ pc = "group"
    /\ LET groups == IF idx = 0 THEN <<>> ELSE spectra_groups
       IN  IF idx >= Len(data)
           THEN /\ pc' = NextStage("group")
                /\ idx' = 0
                /\ spectra_groups' = groups
                /\ NoRaise
                /\ UNCHANGED data
           ELSE IF ~CheckExternalChannel(data[idx + 1].header)
           THEN /\ data' = [data EXCEPT ![idx + 1] = Tagged(@, T_primary)]
                /\ spectra_groups' = StartGroup(groups, Tagged(data[idx + 1], T_primary))
                /\ idx' = idx + 1
                /\ pc' = "group"
                /\ NoRaise
           ELSE /\ data' = [data EXCEPT ![idx + 1] = Tagged(@, T_external)]
                /\ IF groups = <<>>
                   THEN /\ Raise("IndexError")
                        /\ spectra_groups' = groups
                        /\ UNCHANGED idx
                   ELSE /\ spectra_groups' = JoinGroup(groups, Tagged(data[idx + 1], T_external))
                        /\ idx' = idx + 1
                        /\ pc' = "group"
                        /\ NoRaise
    /\ UNCHANGED <<file_contents, prefix, line_nr, empty_lines, global_header, data_header, data_list>>
    /\ UNCHANGED <<current_region, current_group, channel_id, measurement_data,
                   dataset, archive>>

\* _putGroupsIntoClasses, one iteration of  for group in spectra_groups
PutGroupsIntoClasses ==
    /\ pc = "classes"
    /\ IF idx >= Len(spectra_groups)
       THEN /\ pc' = NextStage("classes")
            /\ idx' = 0
            /\ measurement_data' = IF idx = 0 THEN <<>> ELSE measurement_data
            /\ NoRaise
            /\ UNCHANGED <<current_region, current_group, channel_id>>
       ELSE LET group == spectra_groups[idx + 1]
                meta == GetGroupMetaData(group, global_header, current_region, current_group)
                channels == AddDataChannels(group, global_header, 0)
                data_set == IF idx = 0 THEN <<>> ELSE measurement_data
            IN  /\ current_region' = meta.current_region
                /\ current_group' = meta.current_group
                /\ IF meta.error # "none"
                   THEN /\ Raise(meta.error)
                        /\ channel_id' = 0
                        /\ UNCHANGED <<measurement_data, idx>>
                   ELSE IF FirstError(channels) # "none"
                   THEN /\ Raise(FirstError(channels))
                        /\ channel_id' = 0
                        /\ UNCHANGED <<measurement_data, idx>>
                   ELSE /\ measurement_data' =
                               Append(data_set, [metadata |-> meta.metadata, data |-> channels])
                        /\ channel_id' = Len(channels)
                        /\ idx' = idx + 1
                        /\ pc' = "classes"
                        /\ NoRaise
    /\ UNCHANGED parser_vars
    /\ UNCHANGED <<spectra_groups, dataset, archive>>

\* objectToDict
ObjectToDict ==
    /\ pc = "todict"
    /\ dataset' = [i \in DOMAIN measurement_data |-> MeasurementDict(measurement_data[i])]
    /\ pc' = NextStage("todict")
    /\ NoRaise
    /\ UNCHANGED parser_vars
    /\ UNCHANGED <<idx, spectra_groups, current_region, current_group, channel_id,
                   measurement_data, archive>>

\* _moveChannelMetaToGlobal
MoveChannelMetaToGlobal ==
    /\ pc = "move"
    /\ IF \E i \in DOMAIN dataset : MoveFails(dataset[i])
       THEN /\ Raise("KeyError")
            /\ UNCHANGED dataset
       ELSE /\ dataset' = [i \in DOMAIN dataset |-> MoveChannelMeta(dataset[i])]
            /\ pc' = NextStage("move")
            /\ NoRaise
    /\ UNCHANGED parser_vars
    /\ UNCHANGED <<idx, spectra_groups, current_region, current_group, channel_id,
                   measurement_data, archive>>

\* removeAlign
RemoveAlignStep ==
    /\ pc = "align"
    /\ dataset' = RemoveAlign(dataset)
    /\ pc' = NextStage("align")
    /\ NoRaise
    /\ UNCHANGED parser_vars
    /\ UNCHANGED <<idx, spectra_groups, current_region, current_group, channel_id,
                   measurement_data, archive>>

\* extractAllTags
ExtractAllTags ==
    /\ pc = "tags"
    /\ IF \E i \in DOMAIN dataset : ExtractTags(dataset[i]).error # "none"
       THEN /\ Raise("IndexError")
            /\ UNCHANGED dataset
       ELSE /\ dataset' = [i \in DOMAIN dataset |-> ExtractTags(dataset[i]).spectrum]
            /\ pc' = NextStage("tags")
            /\ NoRaise
    /\ UNCHANGED parser_vars
    /\ UNCHANGED <<idx, spectra_groups, current_region, current_group, channel_id,
                   measurement_data, archive>>

\* parse, lines 574-639: one iteration of  for item in self.dataset
Emit ==
    /\ pc = "emit"
    /\ IF idx >= Len(dataset)
       THEN /\ pc' = NextStage("emit")
            /\ idx' = 0
            /\ UNCHANGED archive
       ELSE /\ archive' = Append(archive, MeasurementOf(dataset[idx + 1]))
            /\ idx' = idx + 1
            /\ pc' = "emit"
    /\ NoRaise
    /\ UNCHANGED parser_vars
    /\ UNCHANGED <<spectra_groups, current_region, current_group, channel_id,
                   measurement_data, dataset>>

Next ==
    \/ Parse
    \/ ParseGlobalHeader
    \/ ParseBlocks
    \/ ParseDataHeader
    \/ ParseDataValues
    \/ GroupSpectra
    \/ PutGroupsIntoClasses
    \/ ObjectToDict
    \/ MoveChannelMetaToGlobal
    \/ RemoveAlignStep
    \/ ExtractAllTags
    \/ Emit

Spec == Init /\ [][Next]_vars

(***************************************************************************)
(* One instance used for two files: parse is called again, with a new      *)
(* archive, after it returned or raised for one of FirstFiles.             *)
(***************************************************************************)
\* the files parsed first: one that parses to the end and one that fails
\* in the global header
FirstFiles ==
    { HeaderCounts \o BlockTagged \o EndsWithBlank, HeaderTruncated }

\* the first call of parse on the instance
ParseFirst ==
    /\ pc = "idle"
    /\ LoadFile(FirstFiles)
    /\ NoRaise
    /\ UNCHANGED archive

\* the second call of parse on the instance
ParseAgain ==
    /\ pc \in {"done", "failed"}
    /\ file_contents \in FirstFiles
    /\ LoadFile(Files \ FirstFiles)
    /\ archive' = <<>>
    /\ error' = "none"
    /\ raised_in' = "none"

NextReuse ==
    \/ ParseFirst
    \/ ParseAgain
    \/ ParseGlobalHeader
    \/ ParseBlocks
    \/ ParseDataHeader
    \/ ParseDataValues
    \/ GroupSpectra
    \/ PutGroupsIntoClasses
    \/ ObjectToDict
    \/ MoveChannelMetaToGlobal
    \/ RemoveAlignStep
    \/ ExtractAllTags
    \/ Emit

SpecReuse == Init /\ [][NextReuse]_vars

(***************************************************************************)
(* ProdigyParserXY.parseFile of prodigy_parser_xy_V3.py.  The comment      *)
(* marker is an argument of parseFile; the functions parseFile calls have  *)
(* the bodies of those of XPSParser, and parseFile returns after           *)
(* _moveChannelMetaToGlobal, which leaves pc at the statement after it.    *)
(***************************************************************************)
\* the comment markers parseFile is called with
Prefixes == {"#", "%"}

\* a line whose leading '#' is written as marker p
MarkedLine(line, p) == IF Head(line) = "#" THEN <<p>> \o Tail(line) ELSE line

\* a file whose comment lines start with marker p
Marked(lines, p) == [i \in DOMAIN lines |-> MarkedLine(lines[i], p)]

\* the files parseFile is given, written with '#'
PrefixedFiles ==
    {l[1] \o b \o l[2] :
        l \in Layouts,
        b \in {<<>>, BlockTagged, BlockTagged \o BlockRing, BlockAlign \o BlockTagged}}

\* parseFile on a new instance, lines 88-95: self.prefix = commentprefix,
\* the resets and _loadFile; self.line_nr keeps the value __init__ gave it
ParseFile ==
    /\ pc = "idle"
    /\ \E p \in Prefixes, f \in PrefixedFiles :
           /\ prefix' = p
           /\ file_contents' = Marked(f, p)
    /\ empty_lines' = 0
    /\ global_header' = <<>>
    /\ data' = <<>>
    /\ pc' = "globalHeader"
    /\ NoRaise
    /\ UNCHANGED <<line_nr, data_header, data_list, idx>>
    /\ UNCHANGED stage_vars

NextPrefix ==
    \/ ParseFile
    \/ ParseGlobalHeader
    \/ ParseBlocks
    \/ ParseDataHeader
    \/ ParseDataValues
    \/ GroupSpectra
    \/ PutGroupsIntoClasses
    \/ ObjectToDict
    \/ MoveChannelMetaToGlobal

SpecPrefix == Init /\ [][NextPrefix]_vars

(***************************************************************************)
(* Properties.                                                             *)
(***************************************************************************)
\* the statements of parse that come after statement s
StagesAfter(s) ==
    {StageOrder[i] : i \in {j \in DOMAIN StageOrder :
                               j > CHOOSE n \in DOMAIN StageOrder : StageOrder[n] = s}}

\* _groupSpectra has returned
GroupingDone ==
    \/ pc \in StagesAfter("group")
    \/ pc = "failed" /\ raised_in \in StagesAfter("group")

\* the text contains the word, whatever the case of its letters
MentionsAnyCase(word, text) ==
    \E i \in 1..Len(text) :
        /\ i + Len(word) - 1 <= Len(text)
        /\ \A n \in 1..Len(word) : LowerChar(text[i + n - 1]) = LowerChar(word[n])

\* the blocks of the file that were classified primary
PrimaryBlocks == {i \in DOMAIN data : DictHas(data[i].header, K_channel_type)
                                      /\ ChannelType(data[i]) = T_primary}

\* the groups whose resolved spectrum_region names an alignment
AlignGroups ==
    {i \in DOMAIN measurement_data :
        MentionsAnyCase(<<"a","l","i","g","n">>, measurement_data[i].metadata.spectrum_region)}

\* C1: when parse returns without error, the number of records appended to
\* the archive is the number of blocks classified primary minus the number
\* of groups whose resolved spectrum_region contains 'align' in any case.
C1_RecordCount ==
    pc = "done" => Len(archive) = Cardinality(PrimaryBlocks) - Cardinality(AlignGroups)

\* C1 witness: a finished parse that emitted a record and dropped an
\* alignment group.
C1_Witness ==
    /\ pc = "done"
    /\ Len(archive) >= 1
    /\ Cardinality(AlignGroups) >= 1

\* the lengths of the value arrays of an emitted record
ArrayLengths(r) ==
    {Len(r.additional_channel_data[k]) : k \in DOMAIN r.additional_channel_data}
    \cup (IF r.energy.set THEN {Len(r.energy.values)} ELSE {})
    \cup (IF r.count.set THEN {Len(r.count.values)} ELSE {})

\* C2: in every emitted record the energy array, the count array and every
\* supplemental channel array have the same length.
C2_EqualLengths ==
    \A j \in DOMAIN archive : Cardinality(ArrayLengths(archive[j])) <= 1

\* C3: once _groupSpectra has returned, the groups concatenated in order are
\* the blocks in file order, every group starts with its only primary block,
\* all its other blocks are external, and there are as many groups as
\* primary blocks.
C3_Grouping ==
    GroupingDone =>
        /\ Flatten(spectra_groups) = data
        /\ \A g \in DOMAIN spectra_groups :
               /\ Len(spectra_groups[g]) >= 1
               /\ ChannelType(spectra_groups[g][1]) = T_primary
               /\ \A n \in 2..Len(spectra_groups[g]) :
                      ChannelType(spectra_groups[g][n]) = T_external
        /\ Len(spectra_groups) = Cardinality(PrimaryBlocks)

\* C3 witness: grouping returned two groups, the second one with an
\* external block.
C3_Witness ==
    /\ GroupingDone
    /\ Len(spectra_groups) >= 2
    /\ Len(spectra_groups[2]) >= 2

\* the keys the file gave to block i
FileKeys(i) == {data[i].header[n].k : n \in DOMAIN data[i].header} \ {K_channel_type}

\* C4: a block is classified external exactly when one of its header keys
\* contains 'external channel' in any case; every other block is classified
\* primary, and after grouping no block is left without a class.
C4_Classification ==
    /\ \A i \in DOMAIN data :
           DictHas(data[i].header, K_channel_type) =>
               /\ ChannelType(data[i]) \in {T_primary, T_external}
               /\ ChannelType(data[i]) = T_external
                      <=> \E key \in FileKeys(i) : MentionsAnyCase(<<"e","x","t","e","r","n","a","l"," ","c","h","a","n","n","e","l">>, key)
    /\ GroupingDone => \A i \in DOMAIN data : DictHas(data[i].header, K_channel_type)

\* C4 witness: a block classified external whose key has the phrase in a
\* case that is neither of the two indicator spellings, next to a block
\* classified primary.
C4_Witness ==
    /\ \E i \in DOMAIN data :
           /\ DictHas(data[i].header, K_channel_type)
           /\ ChannelType(data[i]) = T_external
           /\ \A key \in FileKeys(i) :
                  /\ ~Contains(<<"e","x","t","e","r","n","a","l"," ","c","h","a","n","n","e","l">>, key)
                  /\ ~Contains(<<"E","x","t","e","r","n","a","l"," ","C","h","a","n","n","e","l">>, key)
    /\ \E i \in DOMAIN data :
           /\ DictHas(data[i].header, K_channel_type)
           /\ ChannelType(data[i]) = T_primary

\* the primary header of group g has no Region key
OmitsRegion(g) == ~DictHas(spectra_groups[g][1].header, <<"R","e","g","i","o","n">>)

\* C5: a group other than the first whose primary header has no Region key
\* gets the resolved spectrum_region of the group before it, and a group
\* that supplies a Region gets its own (when the file has no
\* file-scope Region), so the value passes unchanged through any run of
\* groups that omit it.
C5_CarryOver ==
    \A g \in DOMAIN measurement_data :
        /\ (g >= 2 /\ OmitsRegion(g)) =>
               measurement_data[g].metadata.spectrum_region
                   = measurement_data[g - 1].metadata.spectrum_region
        /\ (~OmitsRegion(g) /\ ~DictHas(global_header, <<"R","e","g","i","o","n">>)) =>
               measurement_data[g].metadata.spectrum_region
                   = DictGet(spectra_groups[g][1].header, <<"R","e","g","i","o","n">>)

\* C5 witness: the region was carried through two consecutive groups
\* without a Region key.
C5_Witness ==
    \E g \in DOMAIN measurement_data :
        /\ g >= 3
        /\ OmitsRegion(g)
        /\ OmitsRegion(g - 1)

\* C6: every record handed to the archive has its count and its energy set
\* (a group without a count or energy channel makes the parse fail with
\* MissingRequiredFieldError instead).
C6_RolesPresent ==
    /\ \A j \in DOMAIN archive : archive[j].count.set /\ archive[j].energy.set
    /\ (pc = "failed" /\ raised_in = "emit") => error = "MissingRequiredFieldError"

\* the data set item the j-th record of the archive was written from
ItemOf(j) == dataset[j]

\* the position in the data labels of the channel a descriptor names
PositionOf(descriptor, item) ==
    CHOOSE i \in DOMAIN item.metadata.data_labels :
        Str(item.metadata.data_labels[i].channel_id) = descriptor.channel_id

\* the positions of the channels of an item that are neither count nor energy
SupplementalPositions(item) ==
    {i \in DOMAIN item.metadata.data_labels :
        LET l == Replace(Lower(item.metadata.data_labels[i].label), " ", "_")
        IN  /\ l # <<"c","o","u","n","t">>
            /\ l # <<"t","o","t","a","l","_","c","o","u","n","t","s">>
            /\ l # <<"e","n","e","r","g","y">>
            /\ l # <<"k","i","n","e","t","i","c","_","e","n","e","r","g","y">>}

\* C7: every emitted record has as many supplemental channel descriptors as
\* supplemental value arrays, one for each channel whose normalized label is
\* none of count, total_counts, energy, kinetic_energy, and the k-th
\* descriptor carries the id, label and unit of the channel whose values
\* are the k-th array.
C7_SupplementalChannels ==
    \A j \in DOMAIN archive :
        LET r == archive[j]
            item == ItemOf(j)
        IN  /\ Len(r.additional_channels) = Len(r.additional_channel_data)
            /\ Len(r.additional_channels) = Cardinality(SupplementalPositions(item))
            /\ \A k \in DOMAIN r.additional_channels :
                   LET d == r.additional_channels[k]
                       p == PositionOf(d, item)
                   IN  /\ \E i \in DOMAIN item.metadata.data_labels :
                              Str(item.metadata.data_labels[i].channel_id) = d.channel_id
                       /\ p \in SupplementalPositions(item)
                       /\ d.label = item.metadata.data_labels[p].label
                       /\ d.unit = item.metadata.data_labels[p].unit
                       /\ r.additional_channel_data[k] = item.data[p]

\* C7 witness: a finished parse with a record that has its count, its
\* energy and one supplemental channel.
C7_Witness ==
    /\ pc = "done"
    /\ \E j \in DOMAIN archive :
           /\ archive[j].count.set
           /\ archive[j].energy.set
           /\ Len(archive[j].additional_channels) = 1

\* C8: when parse has ended with an error, it has appended no record to the
\* archive.
C8_Atomic == error # "none" => archive = <<>>

\* C8 witness: parse failed in a late stage, on a data set that held a
\* spectrum ready to be written.
C8_Witness ==
    /\ pc = "failed"
    /\ raised_in = "tags"
    /\ Len(dataset) >= 2
    /\ archive = <<>>

\* C9: when the input ends before the global header is terminated, the
\* header parser fails with MalformedHeaderError.
C9_MalformedHeader ==
    (pc = "failed" /\ raised_in = "globalHeader") => error = "MalformedHeaderError"

\* C10: when the first block is external, grouping fails with
\* OrphanExternalChannelError, creates no group and emits no record.
C10_OrphanExternal ==
    (pc = "failed" /\ raised_in = "group") =>
        /\ error = "OrphanExternalChannelError"
        /\ spectra_groups = <<>>
        /\ archive = <<>>

\* C11: a data row with a token that is no floating-point literal ends the
\* parse with the typed InvalidNumericTokenError, not with the error of the
\* conversion itself
C11_InvalidNumericToken ==
    (pc = "failed" /\ raised_in = "dataValues") => error = "InvalidNumericTokenError"

\* the record of a block of a group that was classified external
ExternalBlocks ==
    {b \in UNION {{spectra_groups[g][i] : i \in DOMAIN spectra_groups[g]} :
                      g \in DOMAIN spectra_groups} :
        DictHas(b.header, K_channel_type) /\ ChannelType(b) = T_external}

\* C12: for every block classified external the device name is resolved, to
\* a known device name or to 'unknown device', and the parse does not end in
\* the resolution
C12_DeviceNameNeverFatal ==
    /\ \A b \in ExternalBlocks :
           GetDeviceName(b) \in {KNOWN_DEVICE_NAMES[n].v : n \in DOMAIN KNOWN_DEVICE_NAMES}
                                \cup { <<"u","n","k","n","o","w","n"," ","d","e","v","i","c","e">> }
    /\ (pc = "failed" /\ raised_in = "classes") => error # "UnboundLocalError"

\* the value of the header key that makes block b external
ExternalValue(b) ==
    b.header[CHOOSE i \in DOMAIN b.header :
                 MentionsAnyCase(<<"e","x","t","e","r","n","a","l"," ","c","h","a","n","n","e","l">>, b.header[i].k)].v

\* the table values whose key is contained in the text
KnownIn(table, text) ==
    {table[n].v : n \in {m \in DOMAIN table : Contains(table[m].k, text)}}

\* C13: for every block classified external the label is that of a known
\* label contained in the block's external-channel value, 'unknown data
\* label' when there is none, and the unit is that of a contained known
\* unit, the empty unit when there is none
C13_ExternalLabelUnit ==
    \A b \in ExternalBlocks :
        LET labels == KnownIn(KNOWN_CHANNEL_LABELS, ExternalValue(b))
            units == KnownIn(KNOWN_CHANNEL_UNITS, ExternalValue(b))
        IN  /\ IF labels # {} THEN GetExternalUnit(b).label \in labels
               ELSE GetExternalUnit(b).label = <<"u","n","k","n","o","w","n"," ","d","a","t","a"," ","l","a","b","e","l">>
            /\ IF units # {} THEN GetExternalUnit(b).unit \in units
               ELSE GetExternalUnit(b).unit = <<>>

\* the label and unit the Count Rate value of the global header stands for
RateOf(hdr) ==
    LET rate == IF DictHas(hdr, <<"C","o","u","n","t"," ","R","a","t","e">>) THEN DictGet(hdr, <<"C","o","u","n","t"," ","R","a","t","e">>)
                ELSE None
    IN  CASE rate = <<"C","o","u","n","t","s">> -> [label |-> <<"t","o","t","a","l"," ","c","o","u","n","t","s">>, unit |-> <<"c","o","u","n","t","s">>]
          [] rate = <<"C","o","u","n","t","s"," ","p","e","r"," ","S","e","c","o","n","d">> ->
                 [label |-> <<"c","o","u","n","t"," ","r","a","t","e">>, unit |-> <<"c","o","u","n","t","s"," ","p","e","r"," ","s","e","c","o","n","d">>]
          [] OTHER -> [label |-> <<>>, unit |-> <<>>]

\* C14: the label and unit of the channel built from a primary block are
\* decided by the Count Rate value of the global header alone: 'Counts',
\* 'Counts per Second', and empty label and unit for anything else
C14_PrimaryLabelUnit ==
    \A g \in DOMAIN measurement_data :
        \A j \in DOMAIN spectra_groups[g] :
            ChannelType(spectra_groups[g][j]) = T_primary =>
                /\ measurement_data[g].data[j + 1].label = RateOf(global_header).label
                /\ measurement_data[g].data[j + 1].unit = RateOf(global_header).unit

\* a finished parse of a file whose Count Rate value is written 'counts':
\* the primary channel has the empty label and unit
C14_Witness ==
    /\ pc = "done"
    /\ DictHas(global_header, <<"C","o","u","n","t"," ","R","a","t","e">>)
    /\ DictGet(global_header, <<"C","o","u","n","t"," ","R","a","t","e">>) = <<"c","o","u","n","t","s">>
    /\ \E g \in DOMAIN measurement_data :
           /\ ChannelType(spectra_groups[g][1]) = T_primary
           /\ measurement_data[g].data[2].label = <<>>
           /\ measurement_data[g].data[2].unit = <<>>

\* the value extracted from one '#' segment of a group name
SegmentValue(seg) == StripChars(Strip(Split(seg, ":")[2]), {","})

\* every non-empty value of the segments, in order, each followed by ', '
RECURSIVE JoinValues(_)
JoinValues(segs) ==
    IF segs = <<>> THEN <<>>
    ELSE (IF SegmentValue(Head(segs)) # <<>> THEN SegmentValue(Head(segs)) \o <<","," ">>
          ELSE <<>>) \o JoinValues(Tail(segs))

\* the group name after tag extraction, by the three cases of the name
NameAfterTags(name) ==
    IF \A i \in DOMAIN name : name[i] # "#" THEN name
    ELSE LET base == SubSeq(name, 1, IndexOf(name, "#") - 1)
         IN  IF \E i \in DOMAIN base : base[i] \notin Whitespace THEN base
             ELSE JoinValues(Tail(Split(name, "#")))

SegmentPair(seg) ==
    LET p == Split1(seg, ":")
    IN  [k |-> Strip(p[1]),
         v |-> IF Len(p) < 2 THEN <<>> ELSE RStrip(Strip(p[2]), {","})]

\* the pairs with a non-empty value of the segments of a group name
ParametersOf(name) ==
    {SegmentPair(seg) : seg \in {s \in {Tail(Split(name, "#"))[i] :
                                           i \in DOMAIN Tail(Split(name, "#"))} :
                                     SegmentPair(s).v # <<>>}}

\* C16: extractAllTags completes for every group name, and
\* experiment_parameters holds exactly the pairs of the '#' segments, each
\* split once on its first ':', whose value is not empty
C16_TagPairs ==
    [][pc = "tags" =>
           /\ pc' = "emit"
           /\ \A i \in DOMAIN dataset :
                  {dataset'[i].metadata.experiment_parameters[n] :
                       n \in DOMAIN dataset'[i].metadata.experiment_parameters}
                  = ParametersOf(dataset[i].metadata.group_name)]_vars

\* the records of a data set whose region does not mention 'align'
WithoutAlign(ds) ==
    Keep(ds, {i \in DOMAIN ds :
                 ~MentionsAnyCase(<<"a","l","i","g","n">>, ds[i].metadata.spectrum_region)})

\* the second column of the primary block of group g
PrimaryValues(g) ==
    [r \in DOMAIN spectra_groups[g][1].rows |-> spectra_groups[g][1].rows[r][2]]

\* C17: removeAlign leaves exactly the records whose region does not mention
\* 'align' in any case, in their order and unchanged; the records it is
\* given are those of the primary blocks in file order and the records
\* emitted are the ones it leaves, in the same order
C17_RemoveAlign ==
    /\ [][pc = "align" => dataset' = WithoutAlign(dataset)]_vars
    /\ [](pc = "align" =>
              /\ Len(dataset) = Cardinality(PrimaryBlocks)
              /\ \A g \in DOMAIN dataset : dataset[g].data[2] = PrimaryValues(g))
    /\ [](pc = "done" =>
              /\ Len(archive) = Len(dataset)
              /\ \A j \in DOMAIN archive :
                     /\ archive[j].spectrum_region = dataset[j].metadata.spectrum_region
                     /\ archive[j].count.set => archive[j].count.values = dataset[j].data[2])

\* a finished parse of three groups, the second one an alignment spectrum,
\* that emitted the first and the third
C17_Witness ==
    /\ pc = "done"
    /\ Len(measurement_data) = 3
    /\ MentionsAnyCase(<<"a","l","i","g","n">>, measurement_data[2].metadata.spectrum_region)
    /\ Len(archive) = 2
    /\ archive[1].count.values = PrimaryValues(1)
    /\ archive[2].count.values = PrimaryValues(3)
    /\ PrimaryValues(1) # PrimaryValues(3)

\* the primary header of group g has no Group key
OmitsGroup(g) == ~DictHas(spectra_groups[g][1].header, <<"G","r","o","u","p">>)

\* C18: what a parse leaves on the instance has no influence on the next
\* one.  A region or group name that a group takes over was supplied by an
\* earlier group of the same file: a file whose first group has no Region
\* or no Group key never passes _putGroupsIntoClasses, as on a new instance
C18_NoLeak ==
    pc \in StagesAfter("classes") =>
        \A g \in DOMAIN measurement_data :
            /\ OmitsRegion(g) => \E k \in 1..(g - 1) : ~OmitsRegion(k)
            /\ OmitsGroup(g) => \E k \in 1..(g - 1) : ~OmitsGroup(k)

\* C19: in every group the axis channel has id 0 and the block at 0-based
\* position k has id k+1, whatever the groups before it; data_labels,
\* device_settings and the value arrays have one entry per block plus one,
\* and the entry at 0-based position i carries channel_id i
C19_ChannelIds ==
    /\ \A g \in DOMAIN measurement_data :
           /\ Len(measurement_data[g].data) = Len(spectra_groups[g]) + 1
           /\ \A i \in DOMAIN measurement_data[g].data :
                  measurement_data[g].data[i].channel_id = i - 1
    /\ pc = "align" =>
           \A g \in DOMAIN dataset : Len(dataset[g].data) = Len(spectra_groups[g]) + 1
    /\ pc \in StagesAfter("move") =>
           \A g \in DOMAIN dataset :
               /\ Len(dataset[g].metadata.data_labels) = Len(dataset[g].data)
               /\ Len(dataset[g].metadata.device_settings) = Len(dataset[g].data)
               /\ \A i \in DOMAIN dataset[g].data :
                      /\ dataset[g].metadata.data_labels[i].channel_id = i - 1
                      /\ dataset[g].metadata.device_settings[i].channel_id = i - 1

\* a finished parse of two groups, the second one with an external block:
\* its ids start at 0 again
C19_Witness ==
    /\ pc = "done"
    /\ Len(dataset) = 2
    /\ Len(spectra_groups) = 2
    /\ Len(spectra_groups[1]) = 1
    /\ Len(spectra_groups[2]) = 2
    /\ [i \in 1..3 |-> dataset[2].metadata.data_labels[i].channel_id] = <<0, 1, 2>>
    /\ [i \in 1..3 |-> dataset[2].metadata.device_settings[i].channel_id] = <<0, 1, 2>>

\* the values the blocks of group g give for a header key
SuppliedBy(g, key) ==
    {DictGet(spectra_groups[g][i].header, key) :
        i \in {n \in DOMAIN spectra_groups[g] : DictHas(spectra_groups[g][n].header, key)}}

\* a block of group g signals NEXAFS
SignalsNexafs(g) ==
    \/ <<"C","o","n","s","t","a","n","t","F","i","n","a","l","S","t","a","t","e">> \in SuppliedBy(g, <<"S","c","a","n"," ","M","o","d","e">>)
    \/ \E labels \in SuppliedBy(g, <<"C","o","l","u","m","n","L","a","b","e","l","s">>) : Contains(<<"E","x","c","i","t","a","t","i","o","n"," ","E","n","e","r","g","y">>, labels)

\* C20: the method_type of a group is 'NEXAFS' when a block of it signals
\* NEXAFS, otherwise the Analysis Method value of a block of the group, at
\* any position, when there is one, otherwise 'XPS'
C20_MethodType ==
    \A g \in DOMAIN measurement_data :
        LET method_type == measurement_data[g].metadata.method_type
        IN  IF SignalsNexafs(g) THEN method_type = <<"N","E","X","A","F","S">>
            ELSE IF SuppliedBy(g, <<"A","n","a","l","y","s","i","s"," ","M","e","t","h","o","d">>) # {}
                 THEN method_type \in SuppliedBy(g, <<"A","n","a","l","y","s","i","s"," ","M","e","t","h","o","d">>)
                 ELSE method_type = <<"X","P","S">>

\* C21: the device of the axis channel is 'HSA 3500 plus', that of a primary
\* channel 'Phoibos Hemispherical Analyzer', and that of an external channel
\* whose external-channel value contains a key of KNOWN_DEVICE_NAMES is the
\* name the table gives for a contained key, whichever entry it is
C21_DeviceName ==
    \A g \in DOMAIN measurement_data :
        /\ measurement_data[g].data[1].device_settings.device_name = <<"H","S","A"," ","3","5","0","0"," ","p","l","u","s">>
        /\ \A j \in DOMAIN spectra_groups[g] :
               LET b == spectra_groups[g][j]
                   device_name == measurement_data[g].data[j + 1].device_settings.device_name
               IN  /\ ChannelType(b) = T_primary =>
                          device_name = <<"P","h","o","i","b","o","s"," ","H","e","m","i","s","p","h","e","r","i","c","a","l"," ","A","n","a","l","y","z","e","r">>
                   /\ (/\ ChannelType(b) = T_external
                       /\ KnownIn(KNOWN_DEVICE_NAMES, ExternalValue(b)) # {}) =>
                          device_name \in KnownIn(KNOWN_DEVICE_NAMES, ExternalValue(b))

\* the value the metadata of group g has for an attribute when the
\* file-scope header does not have its key: the value of the primary header
\* of the group, else, for Region and Group, the value carried over from the
\* group before, else the attribute as MetaData() made it
LocalOrCarried(g, key, attr) ==
    IF DictHas(spectra_groups[g][1].header, key)
    THEN DictGet(spectra_groups[g][1].header, key)
    ELSE IF key \in { <<"R","e","g","i","o","n">>, <<"G","r","o","u","p">> } /\ g >= 2
         THEN measurement_data[g - 1].metadata[attr]
         ELSE NewMetaData[attr]

\* C22: an attribute whose key is in the file-scope header has the
\* file-scope value, whatever the primary header of the group or the carried
\* value say; an attribute whose key is not there keeps its group-local or
\* carried-over value
C22_FileScopeWins ==
    \A g \in DOMAIN measurement_data :
        \A n \in DOMAIN GROUP_METADATA_ATTRIBUTE_MAP :
            LET key == GROUP_METADATA_ATTRIBUTE_MAP[n].k
                attr == GROUP_METADATA_ATTRIBUTE_MAP[n].v
            IN  measurement_data[g].metadata[attr] =
                    IF DictHas(global_header, key) THEN DictGet(global_header, key)
                    ELSE LocalOrCarried(g, key, attr)

\* a finished parse of a file whose header has a Region and a Dwell Time,
\* with a group that has other values for both, and a number of scans that
\* only the group has
C22_Witness ==
    /\ pc = "done"
    /\ DictHas(global_header, <<"R","e","g","i","o","n">>)
    /\ DictHas(global_header, <<"D","w","e","l","l"," ","T","i","m","e">>)
    /\ \E g \in DOMAIN measurement_data :
           /\ DictHas(spectra_groups[g][1].header, <<"D","w","e","l","l"," ","T","i","m","e">>)
           /\ DictGet(spectra_groups[g][1].header, <<"D","w","e","l","l"," ","T","i","m","e">>)
                  # DictGet(global_header, <<"D","w","e","l","l"," ","T","i","m","e">>)
           /\ measurement_data[g].metadata.dwell_time = <<"0",".","1">>
           /\ measurement_data[g].metadata.spectrum_region = <<"S","u","r","v","e","y">>
           /\ measurement_data[g].metadata.n_scans = <<"3">>

\* the number of the line that ends the global header: the second line that
\* is blank once markers and blanks are stripped
HeaderEnd(lines) ==
    CHOOSE n \in DOMAIN lines :
        /\ GlobalHeaderText(lines[n]) = <<>>
        /\ Cardinality({i \in 1..n : GlobalHeaderText(lines[i]) = <<>>}) = 2

\* the lines after the global header that are neither comments nor blank
NumericLines(lines) ==
    Keep(lines, {i \in DOMAIN lines : /\ i > HeaderEnd(lines)
                                      /\ lines[i][1] # prefix
                                      /\ SplitWS(lines[i]) # <<>>})

\* C23: when the block loop has ended, the rows of all blocks together are
\* the numeric lines that follow the global header, in order, a data row
\* that is the last line of the file included
C23_AllRows ==
    pc = "group" =>
        Flatten([i \in DOMAIN data |-> data[i].rows])
            = [n \in DOMAIN NumericLines(file_contents) |->
                   RowValues(NumericLines(file_contents)[n])]

\* the number of the line that ends the first pair of consecutive blank
\* lines (blank once markers and blanks are stripped)
PairEnd(lines) ==
    CHOOSE n \in DOMAIN lines :
        /\ n >= 2
        /\ GlobalHeaderText(lines[n]) = <<>>
        /\ GlobalHeaderText(lines[n - 1]) = <<>>
        /\ \A m \in 2..(n - 1) : GlobalHeaderText(lines[m]) # <<>>
                                 \/ GlobalHeaderText(lines[m - 1]) # <<>>

\* the keys of the key/value lines before line n
KeysBefore(lines, n) ==
    {Strip(Split1(GlobalHeaderText(lines[i]), ":")[1]) :
        i \in {m \in 1..(n - 1) : GlobalHeaderText(lines[m]) # <<>>}}

\* C24: when _parseGlobalHeader returns, the cursor is just past the first
\* pair of consecutive blank lines and the header map has the key of every
\* key/value line before that pair
C24_ConsecutiveBlanks ==
    (pc = "blocks" /\ data = <<>>) =>
        /\ line_nr = PairEnd(file_contents)
        /\ {global_header[i].k : i \in DOMAIN global_header}
               = KeysBefore(file_contents, PairEnd(file_contents))

\* a header line without its markers split once on its first ':'
HeaderPair(line) ==
    LET p == Split1(StripChars(line, {"#"}), ":")
    IN  [k |-> Strip(p[1]), v |-> Strip(p[Len(p)])]

\* the entries of the headers of all blocks, without the channel_type tag
BlockEntries ==
    UNION {{data[i].header[n] : n \in {m \in DOMAIN data[i].header :
                                           data[i].header[m].k # K_channel_type}} :
              i \in DOMAIN data}

\* C25: the key of a header line is the text before its first ':' and the
\* value all the text after it, further colons included, in the global
\* header and in the headers of the blocks
C25_FirstColon ==
    /\ (pc = "blocks" /\ data = <<>>) =>
           {global_header[i] : i \in DOMAIN global_header}
               = {HeaderPair(file_contents[i]) :
                     i \in {m \in 1..HeaderEnd(file_contents) :
                               GlobalHeaderText(file_contents[m]) # <<>>}}
    /\ pc = "group" =>
           BlockEntries
               = {HeaderPair(file_contents[i]) :
                     i \in {m \in DOMAIN file_contents :
                               /\ m > HeaderEnd(file_contents)
                               /\ file_contents[m][1] = prefix}}

\* column c of the rows of a block
Column(b, c) == [r \in DOMAIN b.rows |-> b.rows[r][c]]

\* C26: the values of the axis channel of a group are the first column of
\* the rows of its primary block, the values of the channel of each block
\* the second column of the rows of that block; the unit of the axis is
\* 'eV'; its label is 'excitation energy' when a block of the group signals
\* NEXAFS, whatever the file-scope header says, and the file-scope Energy
\* Axis value otherwise
C26_AxisChannel ==
    \A g \in DOMAIN measurement_data :
        LET axis == measurement_data[g].data[1]
        IN  /\ axis.values = Column(spectra_groups[g][1], 1)
            /\ \A j \in DOMAIN spectra_groups[g] :
                   measurement_data[g].data[j + 1].values = Column(spectra_groups[g][j], 2)
            /\ axis.unit = <<"e","V">>
            /\ SignalsNexafs(g) => axis.label = <<"e","x","c","i","t","a","t","i","o","n"," ","e","n","e","r","g","y">>
            /\ (~SignalsNexafs(g) /\ DictHas(global_header, <<"E","n","e","r","g","y"," ","A","x","i","s">>)) =>
                   axis.label = DictGet(global_header, <<"E","n","e","r","g","y"," ","A","x","i","s">>)

\* a finished parse of a file with an Energy Axis in its header and a group
\* whose external block signals NEXAFS
C26_Witness ==
    /\ pc = "done"
    /\ DictHas(global_header, <<"E","n","e","r","g","y"," ","A","x","i","s">>)
    /\ \E g \in DOMAIN measurement_data :
           /\ Len(spectra_groups[g]) >= 2
           /\ ~DictHas(spectra_groups[g][1].header, <<"S","c","a","n"," ","M","o","d","e">>)
           /\ SignalsNexafs(g)
           /\ measurement_data[g].data[1].label = <<"e","x","c","i","t","a","t","i","o","n"," ","e","n","e","r","g","y">>
           /\ measurement_data[g].data[1].values = <<1000, 2000>>

\* the file with every leading marker written as '#'
Hashed(lines) ==
    [i \in DOMAIN lines |->
        IF Head(lines[i]) = prefix THEN <<"#">> \o Tail(lines[i]) ELSE lines[i]]

\* the header map the parser with the default marker gets from the first
\* n lines of a file
RECURSIVE HeaderOf(_, _)
HeaderOf(lines, n) ==
    IF n = 0 THEN <<>>
    ELSE IF GlobalHeaderText(lines[n]) = <<>> THEN HeaderOf(lines, n - 1)
    ELSE DictSet(HeaderOf(lines, n - 1), GlobalHeaderEntry(lines[n]).k,
                 GlobalHeaderEntry(lines[n]).v)

\* a file with two lines that are blank for the parser with the default marker
HasHeaderEnd(lines) ==
    Cardinality({i \in DOMAIN lines : GlobalHeaderText(lines[i]) = <<>>}) >= 2

\* the lines the parser with the default marker reads as data rows
RowLines(lines) ==
    Keep(lines, {i \in DOMAIN lines : /\ i > HeaderEnd(lines)
                                      /\ i < Len(lines)
                                      /\ Head(lines[i]) # "#"
                                      /\ SplitWS(lines[i]) # <<>>})

\* C27: parseFile with marker p on a file whose comment lines start with p
\* gives what the default marker gives on the file written with '#': the
\* global header ends at the same line with the same map, the headers of
\* the blocks have the same entries, their keys without the marker, the
\* blocks have the same rows, and the global header is read to its end
\* whenever that of the '#' file is
C27_PrefixConfigurable ==
    LET hashed == Hashed(file_contents)
    IN  /\ (pc = "blocks" /\ data = <<>>) =>
               /\ line_nr = HeaderEnd(hashed)
               /\ global_header = HeaderOf(hashed, HeaderEnd(hashed))
        /\ pc = "group" =>
               /\ BlockEntries
                      = {HeaderPair(hashed[i]) :
                            i \in {m \in DOMAIN hashed : /\ m > HeaderEnd(hashed)
                                                         /\ Head(hashed[m]) = "#"}}
               /\ Flatten([i \in DOMAIN data |-> data[i].rows])
                      = [n \in DOMAIN RowLines(hashed) |-> RowValues(RowLines(hashed)[n])]
        /\ (pc = "failed" /\ raised_in = "globalHeader") => ~HasHeaderEnd(hashed)

\* parseFile with marker '%' has ended the global header at the last line
\* of a file with a block, with the marker in the keys and no block read
C27_MarkerInKeys ==
    /\ prefix = "%"
    /\ pc = "group"
    /\ data = <<>>
    /\ line_nr = Len(file_contents)
    /\ line_nr > HeaderEnd(Hashed(file_contents))
    /\ DictHas(global_header, <<"%"," ","E","n","e","r","g","y"," ","A","x","i","s">>)
    /\ DictHas(global_header, <<"%"," ","R","e","g","i","o","n">>)
    /\ ~DictHas(global_header, <<"E","n","e","r","g","y"," ","A","x","i","s">>)

\* C28: the block loop of a file whose global header parsed and whose data
\* tokens are numbers ends normally: when its test runs, every iteration
\* made so far has consumed at least one line; _parseDataHeader never
\* reads a line at or beyond the end of the file, a file that ends with
\* comment lines included; and the loop ends with fewer than two lines
\* unconsumed
C28_BlockLoop ==
    /\ pc = "blocks" => line_nr >= HeaderEnd(file_contents) + Len(data)
    /\ pc = "dataHeader" => line_nr < Len(file_contents)
    /\ (pc = "failed" /\ raised_in \in {"dataHeader", "dataValues"}) =>
           error = "ValueError"
    /\ pc = "group" => Len(file_contents) - line_nr < 2

\* _parseDataHeader has read past the last line of a file that ends with
\* comment lines, after one block was read
C28_ReadPastEnd ==
    /\ pc = "failed"
    /\ error = "IndexError"
    /\ raised_in = "dataHeader"
    /\ line_nr = Len(file_contents)
    /\ Head(file_contents[Len(file_contents)]) = prefix
    /\ Len(data) = 1
    /\ data_header # <<>>

\* C29: on a new instance the carried region and group name are not read
\* before they are assigned: _putGroupsIntoClasses does not end with
\* AttributeError, a first group without Region or Group included, and
\* every group it has resolved has a spectrum_region and a group_name
C29_CarriedAssigned ==
    /\ (pc = "failed" /\ raised_in = "classes") => error # "AttributeError"
    /\ \A g \in DOMAIN measurement_data :
           /\ measurement_data[g].metadata.spectrum_region \notin {NoAttr, Unbound}
           /\ measurement_data[g].metadata.group_name \notin {NoAttr, Unbound}

\* _getGroupMetaData has read self.current_region, never assigned, for
\* the first group of the file, whose primary header has no Region
C29_FirstGroupFaults ==
    /\ pc = "failed"
    /\ error = "AttributeError"
    /\ raised_in = "classes"
    /\ idx = 0
    /\ current_region = Unbound
    /\ current_group = Unbound
    /\ ~DictHas(spectra_groups[1][1].header, <<"R","e","g","i","o","n">>)
    /\ ~DictHas(spectra_groups[1][1].header, <<"G","r","o","u","p">>)

\* C30: when _moveChannelMetaToGlobal runs, every channel of every group,
\* the axis channel included, has a label and a unit; the function does
\* not raise; and afterwards the data_labels of every spectrum start with
\* the entry of the axis channel, with a label, also for a group that is
\* not NEXAFS in a file without a file-scope Energy Axis
C30_ChannelsLabelled ==
    /\ pc = "move" =>
           \A i \in DOMAIN dataset : \A j \in DOMAIN dataset[i].data :
               /\ dataset[i].data[j].label # NoAttr
               /\ dataset[i].data[j].unit # NoAttr
    /\ pc = "failed" => raised_in # "move"
    /\ pc \in StagesAfter("move") =>
           \A i \in DOMAIN dataset :
               /\ Len(dataset[i].metadata.data_labels) = Len(spectra_groups[i]) + 1
               /\ dataset[i].metadata.data_labels[1].channel_id = 0
               /\ dataset[i].metadata.data_labels[1].label # NoAttr

\* _moveChannelMetaToGlobal has raised KeyError for the axis channel of a
\* group that is not NEXAFS, in a file without a file-scope Energy Axis
C30_AxisWithoutLabel ==
    /\ pc = "failed"
    /\ error = "KeyError"
    /\ raised_in = "move"
    /\ ~DictHas(global_header, <<"E","n","e","r","g","y"," ","A","x","i","s">>)
    /\ \E i \in DOMAIN dataset :
           /\ ~SignalsNexafs(i)
           /\ dataset[i].data[1].label = NoAttr
           /\ dataset[i].data[1].unit = <<"e","V">>

====
